---- MODULE Spec2Model ----
(***************************************************************************)
(* Floating palette, native Windows side: the dock/snap engine             *)
(* (SnapService), the drag lifecycle coordinator (DragCoordinator) and the *)
(* frame-rate animation interpolator (AnimationService), together with the *)
(* parts of the window directory (WindowStore, WindowService, FrameService,*)
(* VisibilityService) that drive them.                                     *)
(***************************************************************************)
EXTENDS Integers, Sequences, FiniteSets, TLC

VARIABLES
  windows,            \* WindowStore::windows_ : ids present in the directory
  rect,               \* GetWindowRect of each palette HWND: [left, top, w, h]
  visible,            \* IsWindowVisible of each palette HWND
  pending,            \* PaletteWindow::is_pending_reveal
  draggable,          \* PaletteWindow::draggable
  bindings_,          \* SnapService::bindings_ : follower id -> SnapBinding
  auto_snap_configs_, \* SnapService::auto_snap_configs_
  proximity_state_,   \* SnapService::proximity_state_ (optional)
  is_dragging_,       \* DragCoordinator::is_dragging_
  active_drag_id_,    \* DragCoordinator::active_drag_id_
  drag_start_mouse_,  \* DragCoordinator::drag_start_mouse_
  drag_start_window_, \* DragCoordinator::drag_start_window_
  capture,            \* the window holding the mouse capture (SetCapture)
  subclassed,         \* HWNDs with DragSubclassProc installed
  animations_,        \* AnimationService::animations_ : "id:property" -> anim
  timer_id_,          \* AnimationService::timer_id_ (0 = no timer)
  timers,             \* number of OS timers created by SetTimer and not killed
  now,                \* GetTickCount64
  opacity,            \* PaletteWindow::opacity, a rational <<n, d>>
  op,                 \* the handler that ran last, with its arguments
  result,             \* what it reported to the caller
  events,             \* events it handed to the event sink, in order
  notes,              \* delegate callbacks it delivered, in order
  moved,              \* windows it called SetWindowPos on
  entered,            \* target of the last proximityEntered handed to the
                      \* event sink in the current drag session that no
                      \* proximityExited has followed yet ("" if none)
  steps,              \* handlers run so far
  monitoring_,        \* TextSelectionService::monitoring_ (the poll timer
                      \* poll_timer_id_ exists exactly while it is set)
  event_queue_,       \* TextSelectionService::event_queue_
  queue_mutex_,       \* the thread holding queue_mutex_ ("" if none)
  handlers,           \* each UI-Automation thread's position in a handler
                      \* and the event it has built
  poll,               \* the UI thread's position in ProcessPendingEvents
                      \* and what is left of its local vector `events`
  clear_timer_id_,    \* TextSelectionService::clear_timer_id_ (0 = none)
  last_,              \* last_text_, last_x_, last_y_, last_width_, last_height_
  enqueued,           \* every event pushed on event_queue_, in push order
  processed           \* every event the loop of ProcessPendingEvents has
                      \* handled, in order, with what it did

dirVars  == <<windows, rect, visible, pending, draggable>>
snapVars == <<bindings_, auto_snap_configs_, proximity_state_>>
dragVars == <<is_dragging_, active_drag_id_, drag_start_mouse_,
              drag_start_window_, capture, subclassed>>
animVars == <<animations_, timer_id_, timers, now, opacity>>
outVars  == <<op, result, events, notes, moved, entered, steps>>
selVars  == <<monitoring_, event_queue_, queue_mutex_, handlers, poll,
              clear_timer_id_, last_, enqueued, processed>>
vars     == <<dirVars, snapVars, dragVars, animVars, outVars, selVars>>

----------------------------------------------------------------------------
(* Bounds of the model *)

\* Window ids; the directory holds a subset of them.
Ids == {"a", "b", "c"}
\* The ids the caller uses under Spec.
WIds == {"a", "b"}
\* The id a command carries when the parameter is missing (GetString default).
EmptyId == ""
\* Largest |coordinate| a window is moved to (drifting drags and mutual
\* followers are cut off there).
CoordMax == 12
\* GetTickCount64 is followed up to this many milliseconds.
MaxTime == 6
\* A behaviour is followed for this many handler runs.
MaxSteps == 3

\* Size given to create (logical pixels).
Sizes == {<<4, 2>>}
\* Positions given to setPosition.
PosInputs == {<<0, 0>>, <<8, 0>>}
\* Pointer positions reported by GetCursorPos during a drag.
CursorPts == {<<9, 1>>, <<7, 1>>, <<6, 1>>, <<7, 4>>}
\* Where in the window the pointer is when a drag starts, from its top-left.
GrabOffsets == {<<1, 1>>}

----------------------------------------------------------------------------
(* Values *)

Edges == {"top", "bottom", "left", "right"}
NoCapture == "none"
NoProximity == [dragged_id |-> EmptyId]
NoRect == [left |-> 0, top |-> 0, w |-> 0, h |-> 0]

Right(r) == r.left + r.w
Bottom(r) == r.top + r.h
Abs(n) == IF n < 0 THEN -n ELSE n
Min(a, b) == IF a < b THEN a ELSE b
Max(a, b) == IF a > b THEN a ELSE b

\* C++ integer division truncates toward zero.
TruncDiv(a, b) == IF a >= 0 THEN a \div b ELSE -((-a) \div b)
\* the least integer >= n/d (d > 0)
CeilDiv(n, d) == -((-n) \div d)
\* std::round of the rational n/d (d > 0): half away from zero.
RoundDiv(n, d) == IF n >= 0 THEN (2 * n + d) \div (2 * d)
                  ELSE -((2 * (-n) + d) \div (2 * d))

\* Monitor DPI reported by GetDpiForMonitor; 96 is scale factor 1.0.
MonitorDpi == 96
\* LogicalToPhysical(logical, scale) with scale = dpi / 96.0
LogicalToPhysical(logical) == RoundDiv(logical * MonitorDpi, 96)

RECURSIVE GCD(_, _)
GCD(a, b) == IF b = 0 THEN a ELSE GCD(b, a % b)
\* Real numbers (C++ double) are kept as rationals <<n, d>> in lowest terms,
\* d > 0.
Rat(n, d) ==
  LET sn == IF d < 0 THEN -n ELSE n
      sd == Abs(d)
      g == GCD(Abs(sn), sd)
  IN <<sn \div g, sd \div g>>
Zero == <<0, 1>>
One == <<1, 1>>
Int2Rat(i) == <<i, 1>>
RatAdd(p, q) == Rat(p[1] * q[2] + q[1] * p[2], p[2] * q[2])
RatSub(p, q) == Rat(p[1] * q[2] - q[1] * p[2], p[2] * q[2])
RatMul(p, q) == Rat(p[1] * q[1], p[2] * q[2])
RatLess(p, q) == p[1] * q[2] < q[1] * p[2]
RatLeq(p, q) == p[1] * q[2] <= q[1] * p[2]


\* The off-screen place CreateWindowExW first puts a palette at.
OffScreen == -10000

InRange(v) == Abs(v) <= CoordMax \/ v = OffScreen
RectsInRange(R) == \A w \in Ids : InRange(R[w].left) /\ InRange(R[w].top)

----------------------------------------------------------------------------
(* SnapService: geometry *)

Binding(f, t, fe, te, al, gap) ==
  [follower_id |-> f, target_id |-> t, follower_edge |-> fe,
   target_edge |-> te, alignment |-> al, gap |-> gap]

\* All enumerations of a finite set: the orders in which an unordered
\* container may be iterated.
RECURSIVE Orders(_)
Orders(S) ==
  IF S = {} THEN {<<>>}
  ELSE UNION {{<<x>> \o o : o \in Orders(S \ {x})} : x \in S}

\* CalculateSnapPosition that places the follower's leading edge, not its
\* trailing edge, against the target: the follower's extent is not
\* subtracted for bottom/top and right/left.
CalculateSnapPositionNoExtent(b, W, R) ==
  IF b.follower_id \notin W \/ b.target_id \notin W THEN <<0, 0>>
  ELSE
    LET tr == R[b.target_id]
        fr == R[b.follower_id]
        gap == LogicalToPhysical(b.gap)
        fe == b.follower_edge
        te == b.target_edge
        edge_x == IF fe = "left" /\ te = "right" THEN Right(tr) + gap
                  ELSE IF fe = "right" /\ te = "left" THEN tr.left - gap
                  ELSE 0
        edge_y == IF fe = "top" /\ te = "bottom" THEN Bottom(tr) + gap
                  ELSE IF fe = "bottom" /\ te = "top" THEN tr.top - gap
                  ELSE 0
        is_vertical_snap == fe = "top" \/ fe = "bottom"
        new_x == IF is_vertical_snap
                 THEN IF b.alignment = "leading" THEN tr.left
                      ELSE IF b.alignment = "trailing" THEN Right(tr) - fr.w
                      ELSE tr.left + TruncDiv(tr.w - fr.w, 2)
                 ELSE edge_x
        new_y == IF is_vertical_snap THEN edge_y
                 ELSE IF b.alignment = "leading" THEN tr.top
                      ELSE IF b.alignment = "trailing" THEN Bottom(tr) - fr.h
                      ELSE tr.top + TruncDiv(tr.h - fr.h, 2)
    IN <<new_x, new_y>>

\* SnapService::CalculateSnapPosition
CalculateSnapPosition(b, W, R) ==
  IF b.follower_id \notin W \/ b.target_id \notin W THEN <<0, 0>>
  ELSE
    LET tr == R[b.target_id]
        fr == R[b.follower_id]
        fw == fr.w
        fh == fr.h
        tw == tr.w
        th == tr.h
        gap == LogicalToPhysical(b.gap)
        fe == b.follower_edge
        te == b.target_edge
        edge_x == IF fe = "left" /\ te = "right" THEN Right(tr) + gap
                  ELSE IF fe = "right" /\ te = "left" THEN tr.left - fw - gap
                  ELSE 0
        edge_y == IF fe = "top" /\ te = "bottom" THEN Bottom(tr) + gap
                  ELSE IF fe = "bottom" /\ te = "top" THEN tr.top - fh - gap
                  ELSE 0
        is_vertical_snap == fe = "top" \/ fe = "bottom"
        new_x == IF is_vertical_snap
                 THEN IF b.alignment = "leading" THEN tr.left
                      ELSE IF b.alignment = "trailing" THEN Right(tr) - fw
                      ELSE tr.left + TruncDiv(tw - fw, 2)
                 ELSE edge_x
        new_y == IF is_vertical_snap THEN edge_y
                 ELSE IF b.alignment = "leading" THEN tr.top
                      ELSE IF b.alignment = "trailing" THEN Bottom(tr) - fh
                      ELSE tr.top + TruncDiv(th - fh, 2)
    IN <<new_x, new_y>>

\* SetWindowPos(hwnd, x, y, SWP_NOSIZE): move only.
MoveTo(R, w, x, y) == [R EXCEPT ![w].left = x, ![w].top = y]

\* SnapService::PositionFollower: the rectangles after the call.
PositionFollower(b, W, R) ==
  IF b.follower_id \notin W THEN R
  ELSE LET pos == CalculateSnapPosition(b, W, R)
       IN MoveTo(R, b.follower_id, pos[1], pos[2])

\* The windows PositionFollower calls SetWindowPos on.
PositionedBy(b, W) == IF b.follower_id \in W THEN {b.follower_id} ELSE {}

FollowersOf(B, id) == {f \in DOMAIN B : B[f].target_id = id}

RECURSIVE PositionInOrder(_, _, _, _)
\* the loop "for each binding with target_id == id: PositionFollower", in
\* the iteration order `order` of the followers
PositionInOrder(order, B, W, R) ==
  IF order = <<>> THEN R
  ELSE PositionInOrder(Tail(order), B, W, PositionFollower(B[Head(order)], W, R))

\* SnapService::OnWindowShown / OnWindowMoved / first loop of DragMoved:
\* the possible rectangles afterwards, one per iteration order.
RepositionFollowers(id, B, W, R) ==
  {PositionInOrder(o, B, W, R) : o \in Orders(FollowersOf(B, id))}

RepositionedBy(id, B, W) == FollowersOf(B, id) \cap W

----------------------------------------------------------------------------
(* SnapService: proximity detection *)

\* AreCompatibleEdges comparing axes only: any two edges of the same axis.
AreCompatibleEdgesSameAxis(drag_edge, target_edge) ==
  (drag_edge \in {"top", "bottom"}) = (target_edge \in {"top", "bottom"})

\* SnapService::AreCompatibleEdges
AreCompatibleEdges(drag_edge, target_edge) ==
  \/ drag_edge = "top" /\ target_edge = "bottom"
  \/ drag_edge = "bottom" /\ target_edge = "top"
  \/ drag_edge = "left" /\ target_edge = "right"
  \/ drag_edge = "right" /\ target_edge = "left"

\* The distance CalculateEdgeDistance reports for edges that cannot snap (1e9).
Unreachable == 1000000000

\* SnapService::CalculateEdgeDistance
CalculateEdgeDistance(dragged, dragged_edge, target, target_edge) ==
  LET is_vertical == dragged_edge = "top" \/ dragged_edge = "bottom"
      overlap == IF is_vertical
                 THEN Min(Right(dragged), Right(target)) - Max(dragged.left, target.left)
                 ELSE Min(Bottom(dragged), Bottom(target)) - Max(dragged.top, target.top)
  IN IF overlap <= 0 THEN Unreachable
     ELSE IF dragged_edge = "top" /\ target_edge = "bottom"
          THEN Abs(dragged.top - Bottom(target))
     ELSE IF dragged_edge = "bottom" /\ target_edge = "top"
          THEN Abs(Bottom(dragged) - target.top)
     ELSE IF dragged_edge = "left" /\ target_edge = "right"
          THEN Abs(dragged.left - Right(target))
     ELSE IF dragged_edge = "right" /\ target_edge = "left"
          THEN Abs(Right(dragged) - target.left)
     ELSE Unreachable

\* An event handed to the event sink: its name, the window id it carries and
\* its payload (targetId for snap events, property for animation events).
Ev(name, id, data) == [event |-> name, id |-> id, data |-> data]

Proximity(d, t, de, te) ==
  [dragged_id |-> d, target_id |-> t, dragged_edge |-> de, target_edge |-> te]

\* The search loop of CheckProximity without the IsWindowVisible test.
CandidatesHiddenToo(dragged_id, B, C, W, V) ==
  {t \in DOMAIN C :
     /\ t # dragged_id
     /\ C[t].accepts_snap_on # {}
     /\ (C[dragged_id].target_ids = {} \/ t \in C[dragged_id].target_ids)
     /\ ~(t \in DOMAIN B /\ B[t].target_id = dragged_id)
     /\ t \in W}

\* The targets the search loop of CheckProximity does not skip.
Candidates(dragged_id, B, C, W, V) ==
  {t \in DOMAIN C :
     /\ t # dragged_id
     /\ C[t].accepts_snap_on # {}
     /\ (C[dragged_id].target_ids = {} \/ t \in C[dragged_id].target_ids)
     /\ ~(t \in DOMAIN B /\ B[t].target_id = dragged_id)
     /\ t \in W
     /\ V[t]}

\* The matches below the scaled threshold: dist < threshold * dpi / 96, for
\* an integer dist.
Matches(dragged_id, frame, B, C, W, R, V) ==
  LET Dist(x) == CalculateEdgeDistance(frame, x[2], R[x[1]], x[3])
      Below == {x \in Candidates(dragged_id, B, C, W, V)
                        \X C[dragged_id].can_snap_from \X Edges :
                  /\ x[3] \in C[x[1]].accepts_snap_on
                  /\ AreCompatibleEdges(x[2], x[3])
                  /\ Dist(x) < CeilDiv(C[dragged_id].proximity_threshold * MonitorDpi, 96)}
  IN {[target_id |-> x[1], dragged_edge |-> x[2], target_edge |-> x[3],
       distance |-> Dist(x)] : x \in Below}

\* `best` after the search loop: a first minimum in iteration order, that is
\* any match of minimal distance; {} when `best` stays empty.
BestMatches(dragged_id, frame, B, C, W, R, V) ==
  LET M == Matches(dragged_id, frame, B, C, W, R, V)
  IN {m \in M : \A n \in M : m.distance <= n.distance}

\* CheckProximity without the comparison with the stored proximity state:
\* every match is reported as entered.
CheckProximityAlwaysEnters(dragged_id, frame, B, C, P, W, R, V) ==
  IF dragged_id \notin DOMAIN C \/ C[dragged_id].can_snap_from = {}
  THEN IF P # NoProximity /\ P.dragged_id = dragged_id
       THEN {[prox |-> NoProximity,
              events |-> <<Ev("proximityExited", dragged_id, P.target_id)>>]}
       ELSE {[prox |-> P, events |-> <<>>]}
  ELSE
    LET best == BestMatches(dragged_id, frame, B, C, W, R, V)
    IN IF best # {}
       THEN {[prox |-> Proximity(dragged_id, m.target_id, m.dragged_edge, m.target_edge),
              events |-> <<Ev("proximityEntered", dragged_id, m.target_id)>>]
             : m \in best}
       ELSE IF P # NoProximity /\ P.dragged_id = dragged_id
            THEN {[prox |-> NoProximity,
                   events |-> <<Ev("proximityExited", dragged_id, P.target_id)>>]}
            ELSE {[prox |-> P, events |-> <<>>]}

\* CheckProximity dropping the recorded state of a window that lost its
\* config without emitting proximityExited.
CheckProximitySilentReset(dragged_id, frame, B, C, P, W, R, V) ==
  IF dragged_id \notin DOMAIN C \/ C[dragged_id].can_snap_from = {}
  THEN {[prox |-> NoProximity, events |-> <<>>]}
  ELSE
    LET best == BestMatches(dragged_id, frame, B, C, W, R, V)
    IN IF best # {}
       THEN {IF \/ P = NoProximity
                \/ P.target_id # m.target_id
                \/ P.dragged_edge # m.dragged_edge
                \/ P.target_edge # m.target_edge
             THEN [prox |-> Proximity(dragged_id, m.target_id, m.dragged_edge, m.target_edge),
                   events |->
                     (IF P # NoProximity
                      THEN <<Ev("proximityExited", dragged_id, P.target_id)>>
                      ELSE <<>>)
                     \o <<Ev("proximityEntered", dragged_id, m.target_id)>>]
             ELSE [prox |-> P,
                   events |-> <<Ev("proximityUpdated", dragged_id, m.target_id)>>]
             : m \in best}
       ELSE IF P # NoProximity /\ P.dragged_id = dragged_id
            THEN {[prox |-> NoProximity,
                   events |-> <<Ev("proximityExited", dragged_id, P.target_id)>>]}
            ELSE {[prox |-> P, events |-> <<>>]}

\* SnapService::CheckProximity: the possible outcomes, each the new
\* proximity state and the events emitted.
CheckProximity(dragged_id, frame, B, C, P, W, R, V) ==
  IF dragged_id \notin DOMAIN C \/ C[dragged_id].can_snap_from = {}
  THEN IF P # NoProximity /\ P.dragged_id = dragged_id
       THEN {[prox |-> NoProximity,
              events |-> <<Ev("proximityExited", dragged_id, P.target_id)>>]}
       ELSE {[prox |-> P, events |-> <<>>]}
  ELSE
    LET best == BestMatches(dragged_id, frame, B, C, W, R, V)
    IN IF best # {}
       THEN {IF \/ P = NoProximity
                \/ P.target_id # m.target_id
                \/ P.dragged_edge # m.dragged_edge
                \/ P.target_edge # m.target_edge
             THEN [prox |-> Proximity(dragged_id, m.target_id, m.dragged_edge, m.target_edge),
                   events |->
                     (IF P # NoProximity
                      THEN <<Ev("proximityExited", dragged_id, P.target_id)>>
                      ELSE <<>>)
                     \o <<Ev("proximityEntered", dragged_id, m.target_id)>>]
             ELSE [prox |-> P,
                   events |-> <<Ev("proximityUpdated", dragged_id, m.target_id)>>]
             : m \in best}
       ELSE IF P # NoProximity /\ P.dragged_id = dragged_id
            THEN {[prox |-> NoProximity,
                   events |-> <<Ev("proximityExited", dragged_id, P.target_id)>>]}
            ELSE {[prox |-> P, events |-> <<>>]}


----------------------------------------------------------------------------
(* Initial state: the plugin just constructed, no palette created *)

Op(name, id, arg) == [name |-> name, id |-> id, arg |-> arg]
NoMap == [x \in {} |-> x]

\* The threads on which UI Automation calls the event handlers
Threads == {"t1", "t2"}

\* A handler thread outside any handler
HandlerIdle == [pc |-> "idle"]

\* The UI thread outside ProcessPendingEvents
PollIdle == [pc |-> "idle", events |-> <<>>]

\* x, y, width, height of a default-constructed TextSelectionEvent, and of
\* the dedup state after construction or EmitSelectionCleared
NoBox == <<0, 0, 0, 0>>
NoLast == [text |-> "", box |-> NoBox]

\* TextSelectionService after construction: not monitoring, nothing queued
SelectionIdle ==
  /\ monitoring_ = FALSE
  /\ event_queue_ = <<>>
  /\ queue_mutex_ = EmptyId
  /\ handlers = [t \in Threads |-> HandlerIdle]
  /\ poll = PollIdle
  /\ clear_timer_id_ = 0
  /\ last_ = NoLast
  /\ enqueued = <<>>
  /\ processed = <<>>

InitFresh ==
  /\ windows = {}
  /\ rect = [w \in Ids |-> NoRect]
  /\ visible = [w \in Ids |-> FALSE]
  /\ pending = [w \in Ids |-> FALSE]
  /\ draggable = [w \in Ids |-> TRUE]
  /\ bindings_ = NoMap
  /\ auto_snap_configs_ = NoMap
  /\ proximity_state_ = NoProximity
  /\ is_dragging_ = FALSE
  /\ active_drag_id_ = EmptyId
  /\ drag_start_mouse_ = <<0, 0>>
  /\ drag_start_window_ = <<0, 0>>
  /\ capture = NoCapture
  /\ subclassed = {}
  /\ animations_ = NoMap
  /\ timer_id_ = 0
  /\ timers = 0
  /\ now = 0
  /\ opacity = [w \in Ids |-> One]
  /\ op = Op("init", EmptyId, EmptyId)
  /\ result = "none"
  /\ events = <<>>
  /\ notes = <<>>
  /\ moved = {}
  /\ entered = EmptyId
  /\ SelectionIdle
  /\ steps = 0

RECURSIVE EnteredAfter(_, _)
\* The target of the proximityEntered still open after the events evs
\* reached the event sink, t being the one open before them.
EnteredAfter(evs, t) ==
  IF evs = <<>> THEN t
  ELSE IF Head(evs).event = "proximityEntered"
       THEN EnteredAfter(Tail(evs), Head(evs).data)
  ELSE IF Head(evs).event = "proximityExited"
       THEN EnteredAfter(Tail(evs), EmptyId)
  ELSE EnteredAfter(Tail(evs), t)

\* What a handler reports: its name and arguments, its result, the events
\* and delegate callbacks it produced, the windows it moved.
Emit(o, res, evs, nts, mv) ==
  /\ op' = o
  /\ result' = res
  /\ events' = evs
  /\ notes' = nts
  /\ moved' = mv
  /\ entered' = EnteredAfter(evs, IF \E i \in 1..Len(nts) : nts[i].note = "DragBegan"
                                   THEN EmptyId ELSE entered)
  /\ UNCHANGED selVars

\* The same for a handler that counts against the bound on handlers run.
Out(o, res, evs, nts, mv) ==
  /\ steps < MaxSteps
  /\ steps' = steps + 1
  /\ Emit(o, res, evs, nts, mv)

\* a map with key k removed / set
Without(M, k) == [x \in DOMAIN M \ {k} |-> M[x]]
\* A map assignment that, like unordered_map::insert, keeps the entry
\* already stored under k.
WithInsertOnly(M, k, v) ==
  [x \in DOMAIN M \cup {k} |-> IF x \in DOMAIN M THEN M[x] ELSE v]
With(M, k, v) == [x \in DOMAIN M \cup {k} |-> IF x = k THEN v ELSE M[x]]

----------------------------------------------------------------------------
(* SnapService: commands *)

\* Edge pair, alignment and gap given to snap.
SnapParams == {<<"top", "bottom", "center", 0>>, <<"left", "right", "trailing", 1>>}

\* SnapService::Snap
Snap(f, t, prm) ==
  IF f = EmptyId \/ t = EmptyId
  THEN /\ Out(Op("Snap", f, t), "INVALID_PARAMS", <<>>, <<>>, {})
       /\ UNCHANGED <<dirVars, snapVars, dragVars, animVars>>
  ELSE LET binding == Binding(f, t, prm[1], prm[2], prm[3], prm[4])
       IN /\ bindings_' = With(bindings_, f, binding)
          /\ rect' = PositionFollower(binding, windows, rect)
          /\ RectsInRange(rect')
          /\ Out(Op("Snap", f, t), "ok", <<Ev("snapped", f, t)>>, <<>>,
                 PositionedBy(binding, windows))
          /\ UNCHANGED <<windows, visible, pending, draggable, auto_snap_configs_,
                         proximity_state_, dragVars, animVars>>

\* Detach emitting "detached" whether or not a binding was stored.
DetachAlwaysEmits(f) ==
  IF f = EmptyId
  THEN /\ Out(Op("Detach", f, EmptyId), "INVALID_PARAMS", <<>>, <<>>, {})
       /\ UNCHANGED <<dirVars, snapVars, dragVars, animVars>>
  ELSE /\ bindings_' = Without(bindings_, f)
       /\ Out(Op("Detach", f, EmptyId), "ok", <<Ev("detached", f, EmptyId)>>,
              <<>>, {})
       /\ UNCHANGED <<dirVars, auto_snap_configs_, proximity_state_, dragVars, animVars>>

\* SnapService::Detach
Detach(f) ==
  IF f = EmptyId
  THEN /\ Out(Op("Detach", f, EmptyId), "INVALID_PARAMS", <<>>, <<>>, {})
       /\ UNCHANGED <<dirVars, snapVars, dragVars, animVars>>
  ELSE /\ bindings_' = Without(bindings_, f)
       /\ Out(Op("Detach", f, EmptyId), "ok",
              IF f \in DOMAIN bindings_ THEN <<Ev("detached", f, EmptyId)>> ELSE <<>>,
              <<>>, {})
       /\ UNCHANGED <<dirVars, auto_snap_configs_, proximity_state_, dragVars, animVars>>

\* ReSnap storing the binding anew with the default alignment and gap, as
\* a snap command without these parameters would.
ReSnapRebinds(f) ==
  IF f = EmptyId
  THEN /\ Out(Op("ReSnap", f, EmptyId), "INVALID_PARAMS", <<>>, <<>>, {})
       /\ UNCHANGED <<dirVars, snapVars, dragVars, animVars>>
  ELSE IF f \notin DOMAIN bindings_
  THEN /\ Out(Op("ReSnap", f, EmptyId), "NOT_FOUND", <<>>, <<>>, {})
       /\ UNCHANGED <<dirVars, snapVars, dragVars, animVars>>
  ELSE LET b == Binding(f, bindings_[f].target_id, bindings_[f].follower_edge,
                        bindings_[f].target_edge, "center", 0)
       IN /\ bindings_' = With(bindings_, f, b)
          /\ rect' = PositionFollower(b, windows, rect)
          /\ RectsInRange(rect')
          /\ Out(Op("ReSnap", f, EmptyId), "ok",
                 <<Ev("snapped", f, b.target_id)>>, <<>>, PositionedBy(b, windows))
          /\ UNCHANGED <<windows, visible, pending, draggable, auto_snap_configs_,
                         proximity_state_, dragVars, animVars>>

\* SnapService::ReSnap
ReSnap(f) ==
  IF f = EmptyId
  THEN /\ Out(Op("ReSnap", f, EmptyId), "INVALID_PARAMS", <<>>, <<>>, {})
       /\ UNCHANGED <<dirVars, snapVars, dragVars, animVars>>
  ELSE IF f \notin DOMAIN bindings_
  THEN /\ Out(Op("ReSnap", f, EmptyId), "NOT_FOUND", <<>>, <<>>, {})
       /\ UNCHANGED <<dirVars, snapVars, dragVars, animVars>>
  ELSE /\ rect' = PositionFollower(bindings_[f], windows, rect)
       /\ RectsInRange(rect')
       /\ Out(Op("ReSnap", f, EmptyId), "ok",
              <<Ev("snapped", f, bindings_[f].target_id)>>, <<>>,
              PositionedBy(bindings_[f], windows))
       /\ UNCHANGED <<windows, visible, pending, draggable, snapVars, dragVars, animVars>>

\* std::hypot(dx, dy) converted to logical pixels: the distance, given by
\* its square (a rational).
Hypot(dx, dy) ==
  [squared |-> RatMul(Int2Rat(dx * dx + dy * dy),
                      RatMul(Rat(96, MonitorDpi), Rat(96, MonitorDpi)))]

\* The value GetSnapDistance returns for follower f.
SnapDistance(f, B, W, R) ==
  IF f = EmptyId \/ f \notin DOMAIN B \/ B[f].follower_id \notin W
  THEN Hypot(0, 0)
  ELSE LET snap_pos == CalculateSnapPosition(B[f], W, R)
       IN Hypot(snap_pos[1] - R[f].left, snap_pos[2] - R[f].top)

\* SnapService::GetSnapDistance
GetSnapDistance(f) ==
  /\ Out(Op("GetSnapDistance", f, EmptyId),
         SnapDistance(f, bindings_, windows, rect), <<>>, <<>>, {})
  /\ UNCHANGED <<dirVars, snapVars, dragVars, animVars>>

\* The "config" sub-map absent from the parameters.
NullConfig == [absent |-> TRUE]
AutoSnapConfig(from, on, targets, threshold) ==
  [can_snap_from |-> from, accepts_snap_on |-> on, target_ids |-> targets,
   proximity_threshold |-> threshold]
\* Configs given to setAutoSnapConfig.
ConfigInputs ==
  {NullConfig,
   AutoSnapConfig({}, {}, {}, 50),
   AutoSnapConfig({"left", "right"}, {"left", "right"}, {}, 3)}

\* SnapService::SetAutoSnapConfig
SetAutoSnapConfig(w, cfg) ==
  IF w = EmptyId
  THEN /\ Out(Op("SetAutoSnapConfig", w, cfg), "INVALID_PARAMS", <<>>, <<>>, {})
       /\ UNCHANGED <<dirVars, snapVars, dragVars, animVars>>
  ELSE /\ auto_snap_configs_' =
            IF cfg = NullConfig THEN auto_snap_configs_
            ELSE IF cfg.can_snap_from = {} /\ cfg.accepts_snap_on = {}
            THEN Without(auto_snap_configs_, w)
            ELSE With(auto_snap_configs_, w, cfg)
       /\ Out(Op("SetAutoSnapConfig", w, cfg), "ok", <<>>, <<>>, {})
       /\ UNCHANGED <<dirVars, bindings_, proximity_state_, dragVars, animVars>>


----------------------------------------------------------------------------
(* SnapService: directory lifecycle and drag delegate callbacks *)

\* OnWindowDestroyed without the loop that erases the bindings targeting id.
OnWindowDestroyedFollowerOnly(id, B, C, P) ==
  [bindings |-> Without(B, id),
   configs |-> Without(C, id),
   prox |-> IF P # NoProximity /\ (P.dragged_id = id \/ P.target_id = id)
            THEN NoProximity ELSE P]

\* SnapService::OnWindowDestroyed: bindings, configs and proximity afterwards.
OnWindowDestroyed(id, B, C, P) ==
  LET B1 == Without(B, id)
      B2 == [f \in {g \in DOMAIN B1 : B1[g].target_id # id} |-> B1[f]]
  IN [bindings |-> B2,
      configs |-> Without(C, id),
      prox |-> IF P # NoProximity /\ (P.dragged_id = id \/ P.target_id = id)
               THEN NoProximity ELSE P]

\* Gap of the binding auto-snap creates at the end of a drag.
AutoSnapGap == 4

\* DragBegan removing, like OnWindowDestroyed, the bindings that target id
\* as well.
DragBeganDropsFollowers(id, B, P) ==
  [bindings |-> [f \in {g \in DOMAIN B : g # id /\ B[g].target_id # id} |-> B[f]],
   prox |-> IF P # NoProximity /\ P.dragged_id = id THEN NoProximity ELSE P,
   events |-> IF id \in DOMAIN B THEN <<Ev("detached", id, EmptyId)>> ELSE <<>>]

\* SnapService::DragBegan
DragBegan(id, B, P) ==
  [bindings |-> Without(B, id),
   prox |-> IF P # NoProximity /\ P.dragged_id = id THEN NoProximity ELSE P,
   events |-> IF id \in DOMAIN B THEN <<Ev("detached", id, EmptyId)>> ELSE <<>>]

\* DragEnded leaving the proximity match recorded after it made the binding.
DragEndedKeepsProximity(id, B, P, W, R) ==
  IF P # NoProximity /\ P.dragged_id = id
  THEN LET binding == Binding(id, P.target_id, P.dragged_edge, P.target_edge,
                              "center", AutoSnapGap)
       IN [bindings |-> With(B, id, binding),
           prox |-> P,
           rect |-> PositionFollower(binding, W, R),
           events |-> <<Ev("snapped", id, P.target_id)>>,
           moved |-> PositionedBy(binding, W)]
  ELSE [bindings |-> B, prox |-> P, rect |-> R, events |-> <<>>, moved |-> {}]

\* SnapService::DragEnded
DragEnded(id, B, P, W, R) ==
  IF P # NoProximity /\ P.dragged_id = id
  THEN LET binding == Binding(id, P.target_id, P.dragged_edge, P.target_edge,
                              "center", AutoSnapGap)
       IN [bindings |-> With(B, id, binding),
           prox |-> NoProximity,
           rect |-> PositionFollower(binding, W, R),
           events |-> <<Ev("snapped", id, P.target_id)>>,
           moved |-> PositionedBy(binding, W)]
  ELSE [bindings |-> B, prox |-> P, rect |-> R, events |-> <<>>, moved |-> {}]

\* DragMoved running the proximity detection whether or not id is bound.
DragMovedAlwaysChecks(id, frame, B, C, P, W, R, V) ==
  {[rect |-> R1, prox |-> cp.prox, events |-> cp.events,
    moved |-> RepositionedBy(id, B, W)] :
     <<R1, cp>> \in RepositionFollowers(id, B, W, R) \X
                    CheckProximity(id, frame, B, C, P, W, R, V)}

\* SnapService::DragMoved: the possible outcomes (iteration order of the
\* followers, choice among equidistant matches).
DragMoved(id, frame, B, C, P, W, R, V) ==
  {[rect |-> R1, prox |-> cp.prox, events |-> cp.events,
    moved |-> RepositionedBy(id, B, W)] :
     <<R1, cp>> \in RepositionFollowers(id, B, W, R) \X
                    (IF id \notin DOMAIN B
                     THEN CheckProximity(id, frame, B, C, P, W, R, V)
                     ELSE {[prox |-> P, events |-> <<>>]})}

----------------------------------------------------------------------------
(* DragCoordinator *)

Note(name, id) == [note |-> name, id |-> id]
\* A delegate call that passes a frame
NoteFrame(name, id, frame) == [note |-> name, id |-> id, frame |-> frame]

\* How often OnMouseUp(hwnd) runs its body, and so delivers DragEnded, when
\* it is entered with is_dragging_ set: ReleaseCapture() is called before
\* is_dragging_ is cleared, and when hwnd still holds the capture it sends
\* WM_CAPTURECHANGED to hwnd synchronously; DragSubclassProc, still
\* installed, sees is_dragging_ and calls OnMouseUp again.
OnMouseUpRuns(hwnd, cap, sub) == IF cap = hwnd /\ hwnd \in sub THEN 2 ELSE 1

RECURSIVE DeliverDragEnded(_, _, _, _, _, _)
\* n successive calls of delegate_->DragEnded(id, frame)
DeliverDragEnded(n, id, B, P, W, R) ==
  IF n = 0
  THEN [bindings |-> B, prox |-> P, rect |-> R, events |-> <<>>, moved |-> {},
        notes |-> <<>>]
  ELSE LET d == DragEnded(id, B, P, W, R)
           rest == DeliverDragEnded(n - 1, id, d.bindings, d.prox, W, d.rect)
       IN [bindings |-> rest.bindings, prox |-> rest.prox, rect |-> rest.rect,
           events |-> d.events \o rest.events,
           moved |-> d.moved \cup rest.moved,
           notes |-> <<Note("DragEnded", id)>> \o rest.notes]

\* StartDrag without the early return on is_dragging_.
StartDragUnguarded(id, cursor, o) ==
  LET d == DragBegan(id, bindings_, proximity_state_)
  IN /\ drag_start_mouse_' = cursor
     /\ drag_start_window_' = <<rect[id].left, rect[id].top>>
     /\ active_drag_id_' = id
     /\ is_dragging_' = TRUE
     /\ capture' = id
     /\ subclassed' = subclassed \cup {id}
     /\ bindings_' = d.bindings
     /\ proximity_state_' = d.prox
     /\ Out(o, "ok", d.events, <<Note("DragBegan", id)>>, {})
     /\ UNCHANGED <<dirVars, auto_snap_configs_, animVars>>

\* DragCoordinator::StartDrag, entered with a window of the directory
CoordinatorStartDrag(id, cursor, o) ==
  IF is_dragging_
  THEN /\ Out(o, "ok", <<>>, <<>>, {})
       /\ UNCHANGED <<dirVars, snapVars, dragVars, animVars>>
  ELSE LET d == DragBegan(id, bindings_, proximity_state_)
       IN /\ drag_start_mouse_' = cursor
          /\ drag_start_window_' = <<rect[id].left, rect[id].top>>
          /\ active_drag_id_' = id
          /\ is_dragging_' = TRUE
          /\ capture' = id
          /\ subclassed' = subclassed \cup {id}
          /\ bindings_' = d.bindings
          /\ proximity_state_' = d.prox
          /\ Out(o, "ok", d.events, <<Note("DragBegan", id)>>, {})
          /\ UNCHANGED <<dirVars, auto_snap_configs_, animVars>>

\* StartDrag without the early return on a window that is not draggable.
StartDragAnyWindow(id, grab) ==
  IF id \notin windows
  THEN /\ Out(Op("StartDrag", id, EmptyId), "NOT_FOUND", <<>>, <<>>, {})
       /\ UNCHANGED <<dirVars, snapVars, dragVars, animVars>>
  ELSE CoordinatorStartDrag(id, <<rect[id].left + grab[1], rect[id].top + grab[2]>>,
                            Op("StartDrag", id, EmptyId))

\* FrameService::StartDrag (command "startDrag" of the frame service), the
\* pointer being at `grab` inside the window.
StartDrag(id, grab) ==
  IF id \notin windows
  THEN /\ Out(Op("StartDrag", id, EmptyId), "NOT_FOUND", <<>>, <<>>, {})
       /\ UNCHANGED <<dirVars, snapVars, dragVars, animVars>>
  ELSE IF ~draggable[id]
  THEN /\ Out(Op("StartDrag", id, EmptyId), "ok", <<>>, <<>>, {})
       /\ UNCHANGED <<dirVars, snapVars, dragVars, animVars>>
  ELSE CoordinatorStartDrag(id, <<rect[id].left + grab[1], rect[id].top + grab[2]>>,
                            Op("StartDrag", id, EmptyId))

\* "startDrag" on the palette's own channel (floating_palette/self)
SelfStartDrag(id, grab) ==
  IF id \notin windows
  THEN /\ Out(Op("SelfStartDrag", id, EmptyId), "NOT_FOUND", <<>>, <<>>, {})
       /\ UNCHANGED <<dirVars, snapVars, dragVars, animVars>>
  ELSE IF ~draggable[id]
  THEN /\ Out(Op("SelfStartDrag", id, EmptyId), "ok", <<>>, <<>>, {})
       /\ UNCHANGED <<dirVars, snapVars, dragVars, animVars>>
  ELSE CoordinatorStartDrag(id, <<rect[id].left + grab[1], rect[id].top + grab[2]>>,
                            Op("SelfStartDrag", id, EmptyId))

\* FrameService::SetDraggable
SetDraggable(w, flag) ==
  /\ draggable' = IF w \in windows THEN [draggable EXCEPT ![w] = flag]
                  ELSE draggable
  /\ Out(Op("SetDraggable", w, flag), "ok", <<>>, <<>>, {})
  /\ UNCHANGED <<windows, rect, visible, pending, snapVars, dragVars, animVars>>

\* OnMouseMove adding the pointer delta to the window's current position
\* instead of the position recorded by StartDrag.
OnMouseMoveAccumulates(hwnd, cursor) ==
  /\ hwnd \in subclassed
  /\ IF ~is_dragging_
     THEN /\ Out(Op("OnMouseMove", hwnd, cursor), "none", <<>>, <<>>, {})
          /\ UNCHANGED <<dirVars, snapVars, dragVars, animVars>>
     ELSE LET new_x == rect[hwnd].left + (cursor[1] - drag_start_mouse_[1])
              new_y == rect[hwnd].top + (cursor[2] - drag_start_mouse_[2])
              R0 == MoveTo(rect, hwnd, new_x, new_y)
          IN \E d \in DragMoved(active_drag_id_, R0[hwnd], bindings_,
                                auto_snap_configs_, proximity_state_,
                                windows, R0, visible) :
               /\ rect' = d.rect
               /\ RectsInRange(rect')
               /\ proximity_state_' = d.prox
               /\ Out(Op("OnMouseMove", hwnd, cursor), "none", d.events,
                      <<NoteFrame("DragMoved", active_drag_id_, R0[hwnd])>>,
                      {hwnd} \cup d.moved)
               /\ UNCHANGED <<windows, visible, pending, draggable, bindings_,
                              auto_snap_configs_, dragVars, animVars>>

\* DragSubclassProc, WM_MOUSEMOVE: DragCoordinator::OnMouseMove
OnMouseMove(hwnd, cursor) ==
  /\ hwnd \in subclassed
  /\ IF ~is_dragging_
     THEN /\ Out(Op("OnMouseMove", hwnd, cursor), "none", <<>>, <<>>, {})
          /\ UNCHANGED <<dirVars, snapVars, dragVars, animVars>>
     ELSE LET new_x == drag_start_window_[1] + (cursor[1] - drag_start_mouse_[1])
              new_y == drag_start_window_[2] + (cursor[2] - drag_start_mouse_[2])
              R0 == MoveTo(rect, hwnd, new_x, new_y)
          IN \E d \in DragMoved(active_drag_id_, R0[hwnd], bindings_,
                                auto_snap_configs_, proximity_state_,
                                windows, R0, visible) :
               /\ rect' = d.rect
               /\ RectsInRange(rect')
               /\ proximity_state_' = d.prox
               /\ Out(Op("OnMouseMove", hwnd, cursor), "none", d.events,
                      <<NoteFrame("DragMoved", active_drag_id_, R0[hwnd])>>,
                      {hwnd} \cup d.moved)
               /\ UNCHANGED <<windows, visible, pending, draggable, bindings_,
                              auto_snap_configs_, dragVars, animVars>>

\* OnMouseUp ending the session without telling the delegate: DragEnded is
\* not delivered.
EndDragSilently(hwnd, cap, o) ==
  /\ capture' = IF cap = hwnd THEN NoCapture ELSE cap
  /\ subclassed' = subclassed \ {hwnd}
  /\ is_dragging_' = FALSE
  /\ drag_start_mouse_' = <<0, 0>>
  /\ drag_start_window_' = <<0, 0>>
  /\ Out(o, "none", <<>>, <<>>, {})
  /\ UNCHANGED <<dirVars, snapVars, active_drag_id_, animVars>>

\* DragCoordinator::OnMouseUp(hwnd) entered with is_dragging_ set, after the
\* capture has become cap: the state it leaves.  drag_start_mouse_ and
\* drag_start_window_ are not read again before StartDrag overwrites them:
\* the model forgets their values here.
EndDrag(hwnd, cap, o) ==
  LET n == OnMouseUpRuns(hwnd, cap, subclassed)
      d == DeliverDragEnded(n, active_drag_id_, bindings_, proximity_state_,
                            windows, rect)
  IN /\ capture' = IF cap = hwnd THEN NoCapture ELSE cap
     /\ subclassed' = subclassed \ {hwnd}
     /\ is_dragging_' = FALSE
     /\ bindings_' = d.bindings
     /\ proximity_state_' = d.prox
     /\ rect' = d.rect
     /\ RectsInRange(rect')
     /\ drag_start_mouse_' = <<0, 0>>
     /\ drag_start_window_' = <<0, 0>>
     /\ Out(o, "none", d.events, d.notes, d.moved)
     /\ UNCHANGED <<windows, visible, pending, draggable, auto_snap_configs_,
                    active_drag_id_, animVars>>

\* DragSubclassProc, WM_LBUTTONUP: DragCoordinator::OnMouseUp
OnMouseUp(hwnd) ==
  /\ hwnd \in subclassed
  /\ IF ~is_dragging_
     THEN /\ Out(Op("OnMouseUp", hwnd, EmptyId), "none", <<>>, <<>>, {})
          /\ UNCHANGED <<dirVars, snapVars, dragVars, animVars>>
     ELSE EndDrag(hwnd, capture, Op("OnMouseUp", hwnd, EmptyId))

\* DragSubclassProc, WM_CAPTURECHANGED after another application took the
\* capture away from hwnd.
OnCaptureChanged(hwnd) ==
  /\ hwnd \in subclassed
  /\ capture = hwnd
  /\ IF ~is_dragging_
     THEN /\ capture' = NoCapture
          /\ Out(Op("OnCaptureChanged", hwnd, EmptyId), "none", <<>>, <<>>, {})
          /\ UNCHANGED <<dirVars, snapVars, is_dragging_, active_drag_id_,
                         drag_start_mouse_, drag_start_window_, subclassed, animVars>>
     ELSE EndDrag(hwnd, NoCapture, Op("OnCaptureChanged", hwnd, EmptyId))


----------------------------------------------------------------------------
(* WindowService, FrameService, VisibilityService *)

\* WindowService::Create
Create(w, size) ==
  IF w \in windows
  THEN /\ Out(Op("Create", w, EmptyId), "ALREADY_EXISTS", <<>>, <<>>, {})
       /\ UNCHANGED <<dirVars, snapVars, dragVars, animVars>>
  ELSE /\ windows' = windows \cup {w}
       /\ rect' = [rect EXCEPT ![w] = [left |-> OffScreen, top |-> OffScreen,
                                       w |-> LogicalToPhysical(size[1]),
                                       h |-> LogicalToPhysical(size[2])]]
       /\ Out(Op("Create", w, EmptyId), "ok", <<>>, <<>>, {})
       /\ draggable' = [draggable EXCEPT ![w] = TRUE]
       /\ UNCHANGED <<visible, pending, snapVars, dragVars, animVars>>

\* WindowService::Destroy.  captureMsg: whether DestroyWindow, which takes
\* the mouse capture from the window it destroys, delivers WM_CAPTURECHANGED
\* to it (the source does not decide this).
Destroy(w, captureMsg) ==
  IF w \notin windows
  THEN /\ captureMsg = FALSE
       /\ Out(Op("Destroy", w, EmptyId), "NOT_FOUND", <<>>, <<>>, {})
       /\ UNCHANGED <<dirVars, snapVars, dragVars, animVars>>
  ELSE LET c == OnWindowDestroyed(w, bindings_, auto_snap_configs_, proximity_state_)
           W1 == windows \ {w}
           R1 == [rect EXCEPT ![w] = NoRect]
           ends == captureMsg /\ is_dragging_
           d == DeliverDragEnded(IF ends THEN 1 ELSE 0, active_drag_id_,
                                 c.bindings, c.prox, W1, R1)
       IN /\ captureMsg => (capture = w /\ w \in subclassed)
          /\ windows' = W1
          /\ visible' = [visible EXCEPT ![w] = FALSE]
          /\ pending' = [pending EXCEPT ![w] = FALSE]
          /\ draggable' = [draggable EXCEPT ![w] = TRUE]
          /\ opacity' = [opacity EXCEPT ![w] = One]
          /\ auto_snap_configs_' = c.configs
          /\ capture' = IF capture = w THEN NoCapture ELSE capture
          /\ subclassed' = subclassed \ {w}
          /\ is_dragging_' = IF ends THEN FALSE ELSE is_dragging_
          /\ bindings_' = d.bindings
          /\ proximity_state_' = d.prox
          /\ rect' = d.rect
          /\ RectsInRange(rect')
          /\ Out(Op("Destroy", w, EmptyId), "ok",
                 d.events \o <<Ev("destroyed", w, EmptyId)>>, d.notes, d.moved)
          /\ drag_start_mouse_' = IF ends THEN <<0, 0>> ELSE drag_start_mouse_
          /\ drag_start_window_' = IF ends THEN <<0, 0>> ELSE drag_start_window_
          /\ UNCHANGED <<active_drag_id_, animations_, timer_id_, timers, now>>

\* FrameService::SetPosition (anchor topLeft), ending in
\* SnapService::OnWindowMoved
SetPosition(w, pos) ==
  IF w \notin windows
  THEN /\ Out(Op("SetPosition", w, EmptyId), "NOT_FOUND", <<>>, <<>>, {})
       /\ UNCHANGED <<dirVars, snapVars, dragVars, animVars>>
  ELSE LET R0 == MoveTo(rect, w, LogicalToPhysical(pos[1]), LogicalToPhysical(pos[2]))
       IN \E R1 \in RepositionFollowers(w, bindings_, windows, R0) :
            /\ rect' = R1
            /\ RectsInRange(rect')
            /\ Out(Op("SetPosition", w, EmptyId), "ok", <<>>, <<>>,
                   {w} \cup RepositionedBy(w, bindings_, windows))
            /\ UNCHANGED <<windows, visible, pending, draggable, snapVars, dragVars, animVars>>

\* VisibilityService::Show
Show(w) ==
  IF w \notin windows
  THEN /\ Out(Op("Show", w, EmptyId), "NOT_FOUND", <<>>, <<>>, {})
       /\ UNCHANGED <<dirVars, snapVars, dragVars, animVars>>
  ELSE /\ visible' = [visible EXCEPT ![w] = TRUE]
       /\ pending' = [pending EXCEPT ![w] = TRUE]
       /\ Out(Op("Show", w, EmptyId), "ok", <<>>, <<>>, {})
       /\ UNCHANGED <<windows, rect, draggable, snapVars, dragVars, animVars>>

\* VisibilityService::Reveal (safety timer or deferred reveal), ending in
\* SnapService::OnWindowShown
Reveal(w) ==
  /\ w \in windows
  /\ pending[w]
  /\ pending' = [pending EXCEPT ![w] = FALSE]
  /\ \E R1 \in RepositionFollowers(w, bindings_, windows, rect) :
       /\ rect' = R1
       /\ RectsInRange(rect')
  /\ Out(Op("Reveal", w, EmptyId), "none", <<Ev("shown", w, EmptyId)>>, <<>>,
         RepositionedBy(w, bindings_, windows))
  /\ UNCHANGED <<windows, visible, draggable, snapVars, dragVars, animVars>>

\* VisibilityService::Hide, with SnapService::OnWindowHidden (no effect)
Hide(w) ==
  IF w \notin windows
  THEN /\ Out(Op("Hide", w, EmptyId), "NOT_FOUND", <<>>, <<>>, {})
       /\ UNCHANGED <<dirVars, snapVars, dragVars, animVars>>
  ELSE /\ visible' = [visible EXCEPT ![w] = FALSE]
       /\ pending' = [pending EXCEPT ![w] = FALSE]
       /\ Out(Op("Hide", w, EmptyId), "ok", <<Ev("hidden", w, EmptyId)>>, <<>>, {})
       /\ UNCHANGED <<windows, rect, draggable, snapVars, dragVars, animVars>>

----------------------------------------------------------------------------
(* The dock/snap engine and the drag coordinator under caller commands,     *)
(* pointer input and window lifecycle                                       *)

\* Two palettes in use: the state after create, show and reveal of "a" and
\* "b", setPosition of "b" to (0,0) and of "a" to (8,0), and
\* setAutoSnapConfig for both (left and right edges, threshold 3).
InitArranged ==
  LET cfg == AutoSnapConfig({"left", "right"}, {"left", "right"}, {}, 3)
  IN
  /\ windows = {"a", "b"}
  /\ rect = [w \in Ids |->
               IF w = "a" THEN [left |-> 8, top |-> 0, w |-> 4, h |-> 2]
               ELSE IF w = "b" THEN [left |-> 0, top |-> 0, w |-> 4, h |-> 2]
               ELSE NoRect]
  /\ visible = [w \in Ids |-> w \in {"a", "b"}]
  /\ pending = [w \in Ids |-> FALSE]
  /\ draggable = [w \in Ids |-> TRUE]
  /\ bindings_ = NoMap
  /\ auto_snap_configs_ = [w \in {"a", "b"} |-> cfg]
  /\ proximity_state_ = NoProximity
  /\ is_dragging_ = FALSE
  /\ active_drag_id_ = EmptyId
  /\ drag_start_mouse_ = <<0, 0>>
  /\ drag_start_window_ = <<0, 0>>
  /\ capture = NoCapture
  /\ subclassed = {}
  /\ animations_ = NoMap
  /\ timer_id_ = 0
  /\ timers = 0
  /\ now = 0
  /\ opacity = [w \in Ids |-> One]
  /\ op = Op("SetAutoSnapConfig", "b", cfg)
  /\ result = "ok"
  /\ events = <<>>
  /\ notes = <<>>
  /\ moved = {}
  /\ entered = EmptyId
  /\ SelectionIdle
  /\ steps = 0

Init == InitFresh \/ InitArranged

Next ==
  \/ \E w \in WIds, size \in Sizes : Create(w, size)
  \/ \E w \in WIds, m \in BOOLEAN : Destroy(w, m)
  \/ \E w \in WIds, pos \in PosInputs : SetPosition(w, pos)
  \/ \E w \in WIds : Show(w)
  \/ \E w \in WIds : Reveal(w)
  \/ \E w \in WIds : Hide(w)
  \/ \E f, t \in WIds \cup {EmptyId}, prm \in SnapParams : Snap(f, t, prm)
  \/ \E f \in WIds : Detach(f)
  \/ \E f \in WIds : ReSnap(f)
  \/ \E w \in WIds, cfg \in ConfigInputs : SetAutoSnapConfig(w, cfg)
  \/ \E w \in WIds, grab \in GrabOffsets : StartDrag(w, grab)
  \/ \E w \in WIds, cursor \in CursorPts : OnMouseMove(w, cursor)
  \/ \E w \in WIds : OnMouseUp(w)
  \/ \E w \in WIds : OnCaptureChanged(w)

Spec == Init /\ [][Next]_vars

----------------------------------------------------------------------------
(* The snap and drag commands with the queries and flags they depend on *)

NextCmd ==
  \/ \E w \in WIds, size \in Sizes : Create(w, size)
  \/ \E w \in WIds, pos \in PosInputs : SetPosition(w, pos)
  \/ \E f, t \in WIds \cup {EmptyId}, prm \in SnapParams : Snap(f, t, prm)
  \/ \E f \in WIds : ReSnap(f)
  \/ \E f \in WIds \cup {EmptyId} : GetSnapDistance(f)
  \/ \E w \in WIds, flag \in BOOLEAN : SetDraggable(w, flag)
  \/ \E w \in WIds, grab \in GrabOffsets : StartDrag(w, grab)
  \/ \E w \in WIds, grab \in GrabOffsets : SelfStartDrag(w, grab)

SpecCmd == Init /\ [][NextCmd]_vars

----------------------------------------------------------------------------
(* The proximity detection of a drag under the commands that decide which  *)
(* targets are eligible                                                     *)

\* Configs given to setAutoSnapConfig: an allow-list that leaves "b" out,
\* one that names it, one that only accepts snaps, and all four edges with
\* a wider threshold.
ProxConfigInputs ==
  {AutoSnapConfig({"left", "right"}, {"left", "right"}, {"c"}, 3),
   AutoSnapConfig({"left", "right"}, {}, {"b"}, 3),
   AutoSnapConfig({}, {"left", "right"}, {}, 3),
   AutoSnapConfig(Edges, Edges, {}, 5)}

NextProx ==
  \/ \E w \in WIds, cfg \in ConfigInputs \cup ProxConfigInputs : SetAutoSnapConfig(w, cfg)
  \/ \E w \in WIds : Hide(w)
  \/ \E f, t \in WIds, prm \in SnapParams : Snap(f, t, prm)
  \/ \E w \in WIds, pos \in PosInputs : SetPosition(w, pos)
  \/ \E w \in WIds, grab \in GrabOffsets : StartDrag(w, grab)
  \/ \E w \in WIds, cursor \in CursorPts : OnMouseMove(w, cursor)

SpecProx == Init /\ [][NextProx]_vars

\* The state in the middle of a drag: from InitArranged, startDrag of "a"
\* with the pointer at (9,1) and a pointer move to (6,1), which brought
\* the left edge of "a" to 1 from the right edge of "b" and recorded the
\* proximity.
MidDrag ==
  LET cfg == AutoSnapConfig({"left", "right"}, {"left", "right"}, {}, 3)
      frame == [left |-> 5, top |-> 0, w |-> 4, h |-> 2]
  IN
  /\ windows = {"a", "b"}
  /\ rect = [w \in Ids |->
               IF w = "a" THEN frame
               ELSE IF w = "b" THEN [left |-> 0, top |-> 0, w |-> 4, h |-> 2]
               ELSE NoRect]
  /\ visible = [w \in Ids |-> w \in {"a", "b"}]
  /\ pending = [w \in Ids |-> FALSE]
  /\ draggable = [w \in Ids |-> TRUE]
  /\ bindings_ = NoMap
  /\ auto_snap_configs_ = [w \in {"a", "b"} |-> cfg]
  /\ proximity_state_ = Proximity("a", "b", "left", "right")
  /\ is_dragging_ = TRUE
  /\ active_drag_id_ = "a"
  /\ drag_start_mouse_ = <<9, 1>>
  /\ drag_start_window_ = <<8, 0>>
  /\ capture = "a"
  /\ subclassed = {"a"}
  /\ animations_ = NoMap
  /\ timer_id_ = 0
  /\ timers = 0
  /\ now = 0
  /\ opacity = [w \in Ids |-> One]
  /\ op = Op("OnMouseMove", "a", <<6, 1>>)
  /\ result = "none"
  /\ events = <<Ev("proximityEntered", "a", "b")>>
  /\ notes = <<NoteFrame("DragMoved", "a", frame)>>
  /\ moved = {"a"}
  /\ entered = "b"
  /\ SelectionIdle

InitMidDrag == MidDrag /\ steps = 0

SpecProxMidDrag == InitMidDrag /\ [][NextProx]_vars

\* The middle of the same drag with a third palette: "c" was created, shown,
\* placed at (-1,0) and given the same auto-snap config before startDrag of
\* "a" (its reveal is still pending).  The pointer move to (6,1) left "a" 1 from the right edge of "b"
\* and 2 from the right edge of "c"; "b", the nearer, is the match.
MidDragThree ==
  LET cfg == AutoSnapConfig({"left", "right"}, {"left", "right"}, {}, 3)
      frame == [left |-> 5, top |-> 0, w |-> 4, h |-> 2]
  IN
  /\ windows = {"a", "b", "c"}
  /\ rect = [w \in Ids |->
               IF w = "a" THEN frame
               ELSE IF w = "b" THEN [left |-> 0, top |-> 0, w |-> 4, h |-> 2]
               ELSE [left |-> -1, top |-> 0, w |-> 4, h |-> 2]]
  /\ visible = [w \in Ids |-> TRUE]
  /\ pending = [w \in Ids |-> w = "c"]
  /\ draggable = [w \in Ids |-> TRUE]
  /\ bindings_ = NoMap
  /\ auto_snap_configs_ = [w \in {"a", "b", "c"} |-> cfg]
  /\ proximity_state_ = Proximity("a", "b", "left", "right")
  /\ is_dragging_ = TRUE
  /\ active_drag_id_ = "a"
  /\ drag_start_mouse_ = <<9, 1>>
  /\ drag_start_window_ = <<8, 0>>
  /\ capture = "a"
  /\ subclassed = {"a"}
  /\ animations_ = NoMap
  /\ timer_id_ = 0
  /\ timers = 0
  /\ now = 0
  /\ opacity = [w \in Ids |-> One]
  /\ op = Op("OnMouseMove", "a", <<6, 1>>)
  /\ result = "none"
  /\ events = <<Ev("proximityEntered", "a", "b")>>
  /\ notes = <<NoteFrame("DragMoved", "a", frame)>>
  /\ moved = {"a"}
  /\ entered = "b"
  /\ SelectionIdle

InitMidDragThree == MidDragThree /\ steps = 0

\* Edge pairs given to snap while a drag may be running: those of
\* SnapParams and one that docks the follower to the left of its target.
LifecycleSnapParams == SnapParams \cup {<<"right", "left", "center", 0>>}

\* Caller commands and window lifecycle while a drag may be running.
NextLifecycle ==
  \/ \E w \in Ids, m \in BOOLEAN : Destroy(w, m)
  \/ \E w \in Ids : Hide(w)
  \/ \E w \in Ids : Show(w)
  \/ \E w \in WIds, cfg \in ConfigInputs \cup ProxConfigInputs : SetAutoSnapConfig(w, cfg)
  \/ \E f, t \in WIds, prm \in LifecycleSnapParams : Snap(f, t, prm)
  \/ \E f \in WIds : Detach(f)
  \/ \E w \in WIds, grab \in GrabOffsets : StartDrag(w, grab)
  \/ \E w \in WIds, cursor \in CursorPts : OnMouseMove(w, cursor)
  \/ \E w \in WIds : OnMouseUp(w)

SpecLifecycle == InitMidDragThree /\ [][NextLifecycle]_vars


----------------------------------------------------------------------------
(* Snap given any pair of edge names *)

\* Parameters whose followerEdge and targetEdge do not face each other;
\* GetString hands any string on.
OddEdgeParams ==
  {<<"top", "top", "center", 0>>, <<"left", "bottom", "leading", 1>>}

NextSnapEdges ==
  \/ \E f, t \in WIds, prm \in SnapParams \cup OddEdgeParams : Snap(f, t, prm)
  \/ \E f \in WIds : Detach(f)
  \/ \E f \in WIds : ReSnap(f)
  \/ \E w \in WIds, grab \in GrabOffsets : StartDrag(w, grab)
  \/ \E w \in WIds, cursor \in CursorPts : OnMouseMove(w, cursor)
  \/ \E w \in WIds : OnMouseUp(w)

SpecSnapEdges == (Init \/ InitMidDrag) /\ [][NextSnapEdges]_vars

----------------------------------------------------------------------------
(* AnimationService *)

\* No explicit "from" among the parameters.
NoFrom == <<0, 0>>

\* PhysicalToLogical(physical, scale) with scale = dpi / 96.0
PhysicalToLogical(physical) == Rat(physical * 96, MonitorDpi)
\* LogicalToPhysical of a real value
LogicalToPhysicalReal(v) == RoundDiv(v[1] * MonitorDpi, v[2] * 96)

\* ApplyEasing without the two clamping returns.
ApplyEasingUnclamped(t, easing) ==
  IF easing = "easeIn" THEN RatMul(t, t)
  ELSE IF easing = "easeOut"
       THEN RatSub(One, RatMul(RatSub(One, t), RatSub(One, t)))
  ELSE IF easing = "easeInOut"
       THEN IF RatLess(t, <<1, 2>>)
            THEN RatMul(Int2Rat(4), RatMul(t, RatMul(t, t)))
            ELSE LET f == RatSub(RatMul(Int2Rat(2), t), Int2Rat(2))
                 IN RatAdd(RatMul(<<1, 2>>, RatMul(f, RatMul(f, f))), One)
  ELSE t

\* AnimationService::ApplyEasing, t a rational
ApplyEasing(t, easing) ==
  IF RatLeq(t, Zero) THEN Zero
  ELSE IF RatLeq(One, t) THEN One
  ELSE IF easing = "easeIn" THEN RatMul(t, t)
  ELSE IF easing = "easeOut"
       THEN RatSub(One, RatMul(RatSub(One, t), RatSub(One, t)))
  ELSE IF easing = "easeInOut"
       THEN IF RatLess(t, <<1, 2>>)
            THEN RatMul(Int2Rat(4), RatMul(t, RatMul(t, t)))
            ELSE LET f == RatSub(RatMul(Int2Rat(2), t), Int2Rat(2))
                 IN RatAdd(RatMul(<<1, 2>>, RatMul(f, RatMul(f, f))), One)
  ELSE t

\* ApplyValue building its request from zeroes instead of the rectangle
\* GetWindowRect returns.
ApplyValueFromZero(window_id, property, value, W, R, O) ==
  IF window_id \notin W THEN [rect |-> R, opacity |-> O, moved |-> {}]
  ELSE IF property = "opacity"
  THEN [rect |-> R, opacity |-> [O EXCEPT ![window_id] = value], moved |-> {}]
  ELSE LET r == R[window_id]
           v == LogicalToPhysicalReal(value)
           x == IF property = "x" THEN v ELSE 0
           y == IF property = "y" THEN v ELSE 0
           w == IF property = "width" THEN v ELSE 0
           h == IF property = "height" THEN v ELSE 0
           nosize == property = "x" \/ property = "y"
       IN [rect |-> [R EXCEPT ![window_id] =
                       IF nosize THEN [left |-> x, top |-> y, w |-> r.w, h |-> r.h]
                       ELSE [left |-> r.left, top |-> r.top, w |-> w, h |-> h]],
           opacity |-> O,
           moved |-> {window_id}]

\* AnimationService::ApplyValue: rectangles and opacities afterwards, and
\* the windows SetWindowPos was called on.
ApplyValue(window_id, property, value, W, R, O) ==
  IF window_id \notin W THEN [rect |-> R, opacity |-> O, moved |-> {}]
  ELSE IF property = "opacity"
  THEN [rect |-> R, opacity |-> [O EXCEPT ![window_id] = value], moved |-> {}]
  ELSE LET r == R[window_id]
           v == LogicalToPhysicalReal(value)
           x == IF property = "x" THEN v ELSE r.left
           y == IF property = "y" THEN v ELSE r.top
           w == IF property = "width" THEN v ELSE r.w
           h == IF property = "height" THEN v ELSE r.h
           nosize == property = "x" \/ property = "y"
       IN [rect |-> [R EXCEPT ![window_id] =
                       IF nosize THEN [left |-> x, top |-> y, w |-> r.w, h |-> r.h]
                       ELSE [left |-> r.left, top |-> r.top, w |-> w, h |-> h]],
           opacity |-> O,
           moved |-> {window_id}]

Key(window_id, property) == <<window_id, property>>

\* t >= 1.0 in Tick, for t = elapsed / duration_ms
Completes(elapsed, duration) ==
  IF duration > 0 THEN elapsed >= duration
  ELSE IF duration = 0 THEN elapsed > 0
  ELSE FALSE

\* The double that is not a number: 0.0 / 0.0 and everything computed from it.
NaN == <<0, 0>>

\* The value Tick applies for one animation at time n.  With elapsed and
\* duration_ms both 0, t is NaN: `t >= 1.0` is false, ApplyEasing passes
\* both of its clamping returns and every easing yields NaN.
TickValue(anim, n) ==
  LET elapsed == n - anim.start_time
  IN IF Completes(elapsed, anim.duration_ms) THEN anim.to_value
     ELSE IF (elapsed = 0 /\ anim.duration_ms = 0) \/ anim.from_value = NaN THEN NaN
     ELSE LET eased == ApplyEasing(Rat(elapsed, anim.duration_ms), anim.easing)
          IN RatAdd(anim.from_value,
                    RatMul(RatSub(anim.to_value, anim.from_value), eased))

RECURSIVE TickInOrder(_, _, _, _, _, _, _, _)
\* the first loop of Tick over the table in iteration order `order`; mv and
\* completed accumulate the windows moved and the keys pushed to `completed`
TickInOrder(order, A, n, W, R, O, mv, completed) ==
  IF order = <<>>
  THEN [rect |-> R, opacity |-> O, moved |-> mv, completed |-> completed]
  ELSE LET anim == A[Head(order)]
           a == ApplyValue(anim.window_id, anim.property, TickValue(anim, n), W, R, O)
       IN TickInOrder(Tail(order), A, n, W, a.rect, a.opacity, mv \cup a.moved,
                      IF Completes(n - anim.start_time, anim.duration_ms)
                      THEN Append(completed, Head(order)) ELSE completed)

\* The calls Tick makes, in order: ApplyValue for every animation in
\* iteration order, then the event sink for every key pushed to `completed`.
TickCalls(order, completed, A, n) ==
  [i \in 1..Len(order) |->
     NoteFrame("ApplyValue", A[order[i]].window_id,
               <<A[order[i]].property, TickValue(A[order[i]], n)>>)]
  \o [i \in 1..Len(completed) |->
        NoteFrame("complete", A[completed[i]].window_id, A[completed[i]].property)]

\* StartTimer without the check that a timer is already running.
StartTimerAlways(tid, n) == <<1, n + 1>>

\* AnimationService::StartTimer: timer_id_ and the number of OS timers after
StartTimer(tid, n) == IF tid # 0 THEN <<tid, n>> ELSE <<1, n + 1>>
\* AnimationService::StopTimer
StopTimer(tid, n) == IF tid # 0 THEN <<0, n - 1>> ELSE <<tid, n>>

\* TimerProc: AnimationService::Tick, dt milliseconds after the last handler
\* (GetTickCount64 is read by Animate and Tick only)
TickBody(dt) ==
  /\ timers > 0
  /\ now' = now + dt
  /\ \E order \in Orders(DOMAIN animations_) :
     \E t \in {TickInOrder(order, animations_, now + dt, windows, rect, opacity,
                            {}, <<>>)} :
       LET done == {t.completed[i] : i \in 1..Len(t.completed)}
           A1 == [k \in DOMAIN animations_ \ done |-> animations_[k]]
           tm == IF A1 = NoMap THEN StopTimer(timer_id_, timers)
                 ELSE <<timer_id_, timers>>
       IN /\ rect' = t.rect
          /\ opacity' = t.opacity
          /\ animations_' = A1
          /\ timer_id_' = tm[1]
          /\ timers' = tm[2]
          /\ Emit(Op("Tick", EmptyId, EmptyId), "none",
                  [i \in 1..Len(t.completed) |->
                     Ev("complete", t.completed[i][1], t.completed[i][2])],
                  TickCalls(order, t.completed, animations_, now + dt), t.moved)
  /\ UNCHANGED <<windows, visible, pending, draggable, snapVars, dragVars>>

\* A tick among the handlers counted, within the time modelled.
Tick(dt) ==
  /\ now + dt <= MaxTime
  /\ steps < MaxSteps
  /\ steps' = steps + 1
  /\ TickBody(dt)

\* Animate storing with emplace: an animation already under the key stays.
StoredKeepFirst(A, w, prm, n, R, O) ==
  IF Key(w, prm[1]) \in DOMAIN A THEN A
  ELSE LET property == prm[1]
           current == IF property = "x" THEN PhysicalToLogical(R[w].left)
                      ELSE IF property = "y" THEN PhysicalToLogical(R[w].top)
                      ELSE IF property = "width" THEN PhysicalToLogical(R[w].w)
                      ELSE IF property = "height" THEN PhysicalToLogical(R[w].h)
                      ELSE IF property = "opacity" THEN O[w]
                      ELSE Zero
       IN With(A, Key(w, property),
               [window_id |-> w, property |-> property,
                from_value |-> IF prm[5] = NoFrom THEN current ELSE prm[5],
                to_value |-> prm[2], duration_ms |-> prm[3], easing |-> prm[4],
                start_time |-> n])

\* The table after AnimationService::Animate stores its animation; prm is
\* <<property, to, duration, easing, from>>.
Stored(A, w, prm, n, R, O) ==
  LET property == prm[1]
      current == IF property = "x" THEN PhysicalToLogical(R[w].left)
                 ELSE IF property = "y" THEN PhysicalToLogical(R[w].top)
                 ELSE IF property = "width" THEN PhysicalToLogical(R[w].w)
                 ELSE IF property = "height" THEN PhysicalToLogical(R[w].h)
                 ELSE IF property = "opacity" THEN O[w]
                 ELSE Zero
      anim == [window_id |-> w, property |-> property,
               from_value |-> IF prm[5] = NoFrom THEN current ELSE prm[5],
               to_value |-> prm[2], duration_ms |-> prm[3], easing |-> prm[4],
               start_time |-> n]
  IN With(A, Key(w, property), anim)

\* Animate looking the window up only after it stored the animation and
\* started the timer.
AnimateStoresFirst(w, prm) ==
  /\ now' = now
  /\ IF w = EmptyId
     THEN /\ Out(Op("Animate", w, prm), "MISSING_ID", <<>>, <<>>, {})
          /\ UNCHANGED <<dirVars, snapVars, dragVars, animations_, timer_id_,
                         timers, opacity>>
     ELSE LET tm == StartTimer(timer_id_, timers)
          IN /\ animations_' = Stored(animations_, w, prm, now', rect, opacity)
             /\ timer_id_' = tm[1]
             /\ timers' = tm[2]
             /\ Out(Op("Animate", w, prm),
                    IF w \notin windows THEN "NOT_FOUND" ELSE "ok", <<>>, <<>>, {})
             /\ UNCHANGED <<dirVars, snapVars, dragVars, opacity>>

\* AnimationService::Animate
Animate(w, prm) ==
  /\ now' = now
  /\ IF w = EmptyId
     THEN /\ Out(Op("Animate", w, prm), "MISSING_ID", <<>>, <<>>, {})
          /\ UNCHANGED <<dirVars, snapVars, dragVars, animations_, timer_id_,
                         timers, opacity>>
     ELSE IF w \notin windows
     THEN /\ Out(Op("Animate", w, prm), "NOT_FOUND", <<>>, <<>>, {})
          /\ UNCHANGED <<dirVars, snapVars, dragVars, animations_, timer_id_,
                         timers, opacity>>
     ELSE LET tm == StartTimer(timer_id_, timers)
          IN /\ animations_' = Stored(animations_, w, prm, now', rect, opacity)
             /\ timer_id_' = tm[1]
             /\ timers' = tm[2]
             /\ Out(Op("Animate", w, prm), "ok", <<>>, <<>>, {})
             /\ UNCHANGED <<dirVars, snapVars, dragVars, opacity>>

RECURSIVE StoredAll(_, _, _, _, _, _)
\* the loop of AnimateMultiple: Animate for each entry of the list
StoredAll(A, w, list, n, R, O) ==
  IF list = <<>> THEN A
  ELSE StoredAll(Stored(A, w, Head(list), n, R, O), w, Tail(list), n, R, O)

\* AnimationService::AnimateMultiple
AnimateMultiple(w, list) ==
  /\ now' = now
  /\ IF w = EmptyId
     THEN /\ Out(Op("AnimateMultiple", w, list), "MISSING_ID", <<>>, <<>>, {})
          /\ UNCHANGED <<dirVars, snapVars, dragVars, animations_, timer_id_,
                         timers, opacity>>
     ELSE IF w \notin windows \/ list = <<>>
     THEN /\ Out(Op("AnimateMultiple", w, list), "ok", <<>>, <<>>, {})
          /\ UNCHANGED <<dirVars, snapVars, dragVars, animations_, timer_id_,
                         timers, opacity>>
     ELSE LET tm == StartTimer(timer_id_, timers)
          IN /\ animations_' = StoredAll(animations_, w, list, now', rect, opacity)
             /\ timer_id_' = tm[1]
             /\ timers' = tm[2]
             /\ Out(Op("AnimateMultiple", w, list), "ok", <<>>, <<>>, {})
             /\ UNCHANGED <<dirVars, snapVars, dragVars, opacity>>

\* Stop clearing the whole table instead of the animations of w.
StopClearsTable(w) ==
  IF w = EmptyId
  THEN /\ Out(Op("Stop", w, EmptyId), "MISSING_ID", <<>>, <<>>, {})
       /\ UNCHANGED <<dirVars, snapVars, dragVars, animVars>>
  ELSE LET tm == StopTimer(timer_id_, timers)
       IN /\ animations_' = NoMap
          /\ timer_id_' = tm[1]
          /\ timers' = tm[2]
          /\ Out(Op("Stop", w, EmptyId), "ok", <<>>, <<>>, {})
          /\ UNCHANGED <<dirVars, snapVars, dragVars, now, opacity>>

\* AnimationService::Stop
Stop(w) ==
  IF w = EmptyId
  THEN /\ Out(Op("Stop", w, EmptyId), "MISSING_ID", <<>>, <<>>, {})
       /\ UNCHANGED <<dirVars, snapVars, dragVars, animVars>>
  ELSE LET A1 == [k \in {j \in DOMAIN animations_ : animations_[j].window_id # w}
                    |-> animations_[k]]
           tm == IF A1 = NoMap THEN StopTimer(timer_id_, timers)
                 ELSE <<timer_id_, timers>>
       IN /\ animations_' = A1
          /\ timer_id_' = tm[1]
          /\ timers' = tm[2]
          /\ Out(Op("Stop", w, EmptyId), "ok", <<>>, <<>>, {})
          /\ UNCHANGED <<dirVars, snapVars, dragVars, now, opacity>>

\* AnimationService::StopAll
StopAll ==
  LET tm == StopTimer(timer_id_, timers)
  IN /\ animations_' = NoMap
     /\ timer_id_' = tm[1]
     /\ timers' = tm[2]
     /\ Out(Op("StopAll", EmptyId, EmptyId), "ok", <<>>, <<>>, {})
     /\ UNCHANGED <<dirVars, snapVars, dragVars, now, opacity>>

\* AnimationService::IsAnimating
IsAnimating(w) ==
  /\ Out(Op("IsAnimating", w, EmptyId),
         w # EmptyId /\ \E k \in DOMAIN animations_ : animations_[k].window_id = w,
         <<>>, <<>>, {})
  /\ UNCHANGED <<dirVars, snapVars, dragVars, animVars>>

\* Parameters given to animate: <<property, to, duration, easing, from>>.
AnimInputs ==
  {<<"x", Int2Rat(12), 2, "linear", NoFrom>>,
   <<"x", Int2Rat(4), 3, "easeInOut", Int2Rat(0)>>,
   <<"width", Int2Rat(8), 2, "easeOut", NoFrom>>,
   <<"opacity", Zero, 4, "easeIn", NoFrom>>}
\* Lists given to animateMultiple.
AnimLists ==
  {<<>>,
   << <<"x", Int2Rat(12), 2, "linear", NoFrom>>, <<"opacity", Zero, 4, "easeIn", NoFrom>> >>,
   << <<"x", Int2Rat(12), 2, "linear", NoFrom>>, <<"x", Int2Rat(4), 3, "easeInOut", Int2Rat(0)>> >>}
\* Milliseconds that pass between the previous handler and a tick.
Delays == {1, 2}

----------------------------------------------------------------------------
(* The animation interpolator under caller commands, timer ticks and        *)
(* window creation and destruction                                          *)

NextAnim ==
  \/ \E w \in WIds, size \in Sizes : Create(w, size)
  \/ \E w \in WIds : Destroy(w, FALSE)
  \/ \E w \in WIds \cup {EmptyId}, prm \in AnimInputs : Animate(w, prm)
  \/ \E w \in WIds, l \in AnimLists : AnimateMultiple(w, l)
  \/ \E w \in WIds : Stop(w)
  \/ StopAll
  \/ \E w \in WIds \cup {EmptyId} : IsAnimating(w)
  \/ \E dt \in Delays : Tick(dt)

SpecAnim == Init /\ [][NextAnim]_vars

----------------------------------------------------------------------------
(* Animate given parameter maps without a usable "property" *)

\* Parameters whose "property" is missing (read as "") or names no
\* animatable property.
BadAnimInputs ==
  {<<"", Int2Rat(12), 2, "linear", NoFrom>>,
   <<"color", Int2Rat(4), 2, "linear", Int2Rat(0)>>}

NextAnimParams ==
  \/ \E w \in WIds, size \in Sizes : Create(w, size)
  \/ \E w \in WIds, prm \in AnimInputs \cup BadAnimInputs : Animate(w, prm)
  \/ \E w \in WIds : IsAnimating(w)
  \/ \E w \in WIds : Stop(w)
  \/ \E dt \in Delays : Tick(dt)

SpecAnimParams == Init /\ [][NextAnimParams]_vars

----------------------------------------------------------------------------
(* Animations of every property, several of one window at a time *)

\* One animation for each animatable property.
AxisInputs ==
  {<<"x", Int2Rat(12), 2, "linear", NoFrom>>,
   <<"y", Int2Rat(4), 2, "linear", NoFrom>>,
   <<"width", Int2Rat(8), 2, "easeOut", NoFrom>>,
   <<"height", Int2Rat(6), 4, "linear", NoFrom>>,
   <<"opacity", Zero, 4, "easeIn", NoFrom>>}
\* x and y in one animateMultiple.
AxisLists ==
  {<< <<"x", Int2Rat(12), 2, "linear", NoFrom>>, <<"y", Int2Rat(4), 2, "linear", NoFrom>> >>}

NextAnimAxes ==
  \/ \E w \in WIds, prm \in AxisInputs : Animate(w, prm)
  \/ \E w \in WIds, l \in AxisLists : AnimateMultiple(w, l)
  \/ \E w \in WIds : Stop(w)
  \/ \E dt \in Delays : Tick(dt)

SpecAnimAxes == Init /\ [][NextAnimAxes]_vars

----------------------------------------------------------------------------
(* Animate given any "duration", and ticks that read the same              *)
(* GetTickCount64 value as the Animate before them                          *)

\* Parameters whose "duration" is zero or negative; GetDouble hands any
\* number on.  Zero is given for opacity only: for a geometry property the
\* NaN of a tick at elapsed 0 goes through static_cast<int>, whose result
\* is undefined.
DurationInputs ==
  {<<"opacity", Zero, 0, "linear", NoFrom>>,
   <<"x", Int2Rat(12), -2, "linear", NoFrom>>}

\* An animation in flight: from InitArranged, animate of "a" on x to 12 in
\* 2 ms and one tick 1 ms later, which wrote the value half way.
MidAnimation ==
  LET cfg == AutoSnapConfig({"left", "right"}, {"left", "right"}, {}, 3)
  IN
  /\ windows = {"a", "b"}
  /\ rect = [w \in Ids |->
               IF w = "a" THEN [left |-> 10, top |-> 0, w |-> 4, h |-> 2]
               ELSE IF w = "b" THEN [left |-> 0, top |-> 0, w |-> 4, h |-> 2]
               ELSE NoRect]
  /\ visible = [w \in Ids |-> w \in {"a", "b"}]
  /\ pending = [w \in Ids |-> FALSE]
  /\ draggable = [w \in Ids |-> TRUE]
  /\ bindings_ = NoMap
  /\ auto_snap_configs_ = [w \in {"a", "b"} |-> cfg]
  /\ proximity_state_ = NoProximity
  /\ is_dragging_ = FALSE
  /\ active_drag_id_ = EmptyId
  /\ drag_start_mouse_ = <<0, 0>>
  /\ drag_start_window_ = <<0, 0>>
  /\ capture = NoCapture
  /\ subclassed = {}
  /\ animations_ = With(NoMap, Key("a", "x"),
                        [window_id |-> "a", property |-> "x",
                         from_value |-> Int2Rat(8), to_value |-> Int2Rat(12),
                         duration_ms |-> 2, easing |-> "linear", start_time |-> 0])
  /\ timer_id_ = 1
  /\ timers = 1
  /\ now = 1
  /\ opacity = [w \in Ids |-> One]
  /\ op = Op("Tick", EmptyId, EmptyId)
  /\ result = "none"
  /\ events = <<>>
  /\ notes = <<NoteFrame("ApplyValue", "a", <<"x", Int2Rat(10)>>)>>
  /\ moved = {"a"}
  /\ entered = EmptyId
  /\ SelectionIdle

InitMidAnimation == MidAnimation /\ steps = 0

\* A tick reads the GetTickCount64 value the handler before it read only
\* when its timer was started earlier, for an animation that is still in
\* the table; a timer just started fires 16 ms later.
NextAnimDur ==
  \/ \E w \in WIds, size \in Sizes : Create(w, size)
  \/ \E w \in WIds, prm \in AnimInputs \cup DurationInputs : Animate(w, prm)
  \/ \E w \in WIds : Stop(w)
  \/ StopAll
  \/ \E dt \in Delays : Tick(dt)
  \/ (\E k \in DOMAIN animations_ : animations_[k].start_time < now) /\ Tick(0)

SpecAnimDur == (Init \/ InitMidAnimation) /\ [][NextAnimDur]_vars

----------------------------------------------------------------------------
(* The tick timer left running: ticks keep firing after the last command *)

\* The longest duration among the parameters given to animate.
LongestDuration ==
  CHOOSE d \in {prm[3] : prm \in AnimInputs \cup DurationInputs} :
    \A prm \in AnimInputs \cup DurationInputs : prm[3] <= d

\* Time enough for every animation started by MaxTime to reach t >= 1 if
\* it ever does.
LiveHorizon == MaxTime + LongestDuration

\* TimerProc firing on its own: a tick that does not count as a handler
\* run, up to the horizon.
TimerTick(dt) ==
  /\ now + dt <= LiveHorizon
  /\ TickBody(dt)
  /\ UNCHANGED steps

\* Commands come while the step bound lasts and no later than MaxTime;
\* the timer ticks on after them.
NextAnimLive ==
  \/ \E prm \in AnimInputs \cup DurationInputs : now <= MaxTime /\ Animate("a", prm)
  \/ Stop("a")
  \/ StopAll
  \/ \E dt \in Delays : TimerTick(dt)

\* What decides whether TimerTick can fire, and what it does to the clock.
\* TimerTick is the only step of NextAnimLive that moves the clock, so a
\* step of the specification that satisfies TimerFires is a TimerTick.
TimerFires ==
  \E dt \in Delays : timers > 0 /\ now + dt <= LiveHorizon /\ now' = now + dt

\* SetTimer(NULL, 0, 16, TimerProc): while the timer exists and the message
\* loop runs, WM_TIMER keeps being dispatched.
TimerFairness == WF_now(TimerFires)

SpecAnimLive == InitArranged /\ [][NextAnimLive]_vars /\ TimerFairness

----------------------------------------------------------------------------
(* The geometry and easing functions applied to given arguments *)

\* Frames of the target "b" and of the follower "a".
TargetRects ==
  {[left |-> 100, top |-> 100, w |-> 200, h |-> 150],
   [left |-> 0, top |-> 0, w |-> 4, h |-> 2],
   [left |-> 10, top |-> 20, w |-> 31, h |-> 40]}
FollowerRects ==
  {[left |-> 0, top |-> 0, w |-> 50, h |-> 50],
   [left |-> 7, top |-> 9, w |-> 4, h |-> 2],
   [left |-> 3, top |-> 3, w |-> 250, h |-> 201]}
Alignments == {"leading", "center", "trailing"}
Gaps == {0, 4}
EasingKinds == {"linear", "easeIn", "easeOut", "easeInOut"}
\* Progress values t = elapsed / duration given to ApplyEasing.
Progress == {<<-1, 2>>, <<0, 1>>, <<1, 4>>, <<1, 2>>, <<3, 4>>, <<1, 1>>, <<3, 2>>}

\* Two palettes "a" and "b" with the given frames, nothing else done yet.
InitFn ==
  /\ windows = {"a", "b"}
  /\ \E fr \in FollowerRects, tr \in TargetRects :
       rect = [w \in Ids |-> IF w = "a" THEN fr ELSE IF w = "b" THEN tr ELSE NoRect]
  /\ visible = [w \in Ids |-> FALSE]
  /\ pending = [w \in Ids |-> FALSE]
  /\ draggable = [w \in Ids |-> TRUE]
  /\ bindings_ = NoMap
  /\ auto_snap_configs_ = NoMap
  /\ proximity_state_ = NoProximity
  /\ is_dragging_ = FALSE
  /\ active_drag_id_ = EmptyId
  /\ drag_start_mouse_ = <<0, 0>>
  /\ drag_start_window_ = <<0, 0>>
  /\ capture = NoCapture
  /\ subclassed = {}
  /\ animations_ = NoMap
  /\ timer_id_ = 0
  /\ timers = 0
  /\ now = 0
  /\ opacity = [w \in Ids |-> One]
  /\ op = Op("init", EmptyId, EmptyId)
  /\ result = "none"
  /\ events = <<>>
  /\ notes = <<>>
  /\ moved = {}
  /\ entered = EmptyId
  /\ SelectionIdle
  /\ steps = 0

\* CalculateSnapPosition for a binding of follower "a" to target "b"
SnapPositionOf(fe, te, al, gap) ==
  /\ Out(Op("CalculateSnapPosition", "a", <<"b", fe, te, al, gap>>),
         CalculateSnapPosition(Binding("a", "b", fe, te, al, gap), windows, rect),
         <<>>, <<>>, {})
  /\ UNCHANGED <<dirVars, snapVars, dragVars, animVars>>

\* AreCompatibleEdges for an ordered pair of edges
CompatibleEdgesOf(drag_edge, target_edge) ==
  /\ Out(Op("AreCompatibleEdges", drag_edge, target_edge),
         AreCompatibleEdges(drag_edge, target_edge), <<>>, <<>>, {})
  /\ UNCHANGED <<dirVars, snapVars, dragVars, animVars>>

\* ApplyEasing for a progress value and an easing kind
EasingOf(t, easing) ==
  /\ Out(Op("ApplyEasing", easing, t), ApplyEasing(t, easing), <<>>, <<>>, {})
  /\ UNCHANGED <<dirVars, snapVars, dragVars, animVars>>

NextFn ==
  \/ \E fe \in Edges, te \in Edges, al \in Alignments, gap \in Gaps :
       SnapPositionOf(fe, te, al, gap)
  \/ \E drag_edge \in Edges, target_edge \in Edges :
       CompatibleEdgesOf(drag_edge, target_edge)
  \/ \E t \in Progress, easing \in EasingKinds : EasingOf(t, easing)

SpecFn == InitFn /\ [][NextFn]_vars

----------------------------------------------------------------------------
(* Properties of the dock/snap engine and the drag coordinator *)

\* How many events named `name` a handler emitted / callbacks it delivered.
CountEv(evs, name) == Cardinality({i \in 1..Len(evs) : evs[i].event = name})
CountNote(nts, name) == Cardinality({i \in 1..Len(nts) : nts[i].note = name})

\* C1: in every state the binding stored under key f has follower_id = f,
\* and a Snap for a follower, or the auto-snap at the end of a drag, leaves
\* exactly one binding for that follower (the new one) and touches no
\* other follower's binding.
C1_OneBindingPerFollower ==
  [][/\ \A f \in DOMAIN bindings_' : bindings_'[f].follower_id = f
     /\ (op'.name = "Snap" /\ result' = "ok") =>
          /\ DOMAIN bindings_' = DOMAIN bindings_ \cup {op'.id}
          /\ bindings_'[op'.id].target_id = op'.arg
          /\ \A g \in DOMAIN bindings_ \ {op'.id} : bindings_'[g] = bindings_[g]
     /\ (op'.name \in {"OnMouseUp", "OnCaptureChanged"}
         /\ CountEv(events', "snapped") > 0) =>
          /\ DOMAIN bindings_' = DOMAIN bindings_ \cup {active_drag_id_}
          /\ bindings_'[active_drag_id_].target_id = proximity_state_.target_id
          /\ \A g \in DOMAIN bindings_ \ {active_drag_id_} :
               bindings_'[g] = bindings_[g]]_vars

\* C1 witness: a drag of "a" ended next to "b" and the auto-snap stored the
\* binding of "a" under key "a".
C1_Witness ==
  /\ op.name = "OnMouseUp"
  /\ CountEv(events, "snapped") = 1
  /\ "a" \in DOMAIN bindings_
  /\ bindings_["a"].target_id = "b"

\* Whether proximity state P names window id as dragged window or target.
Names(P, id) == P # NoProximity /\ (P.dragged_id = id \/ P.target_id = id)

\* C2: after the destroy command for a window W of the directory no binding
\* has W as follower or as target, and the proximity state is empty if it
\* named W.
C2_DestroyCleansUp ==
  [][(op'.name = "Destroy" /\ result' = "ok") =>
       /\ \A f \in DOMAIN bindings_' :
            f # op'.id /\ bindings_'[f].target_id # op'.id
       /\ Names(proximity_state_, op'.id) => proximity_state_' = NoProximity
       /\ ~Names(proximity_state_', op'.id)]_vars

\* C2 witness: "a" was snapped below "b" (top 2 is where only that snap
\* puts it), then "b" was destroyed and the binding of "a" is gone.
C2_Witness ==
  /\ op = Op("Destroy", "b", EmptyId)
  /\ result = "ok"
  /\ "a" \in windows
  /\ rect["a"].top = 2
  /\ bindings_ = NoMap

\* C3: every window id a binding or the proximity state refers to is in the
\* directory, and no snap operation moves a window for a binding whose
\* follower or target is absent.
C3_NoDanglingReference ==
  /\ \A f \in DOMAIN bindings_ : f \in windows /\ bindings_[f].target_id \in windows
  /\ proximity_state_ # NoProximity =>
       proximity_state_.dragged_id \in windows /\ proximity_state_.target_id \in windows
  /\ (op.name = "Snap" /\ moved # {}) => (op.id \in windows /\ op.arg \in windows)

\* C4: StartDrag during an active drag session changes nothing of the
\* session (drag id, start positions, capture, subclass), delivers no
\* callback and emits no event.
C4_StartDragWhileDragging ==
  [][(is_dragging_ /\ op'.name = "StartDrag") =>
       /\ UNCHANGED <<dragVars, snapVars, rect>>
       /\ notes' = <<>>
       /\ events' = <<>>]_vars

\* C4 witness: StartDrag for "b" was handled while the session of "a" was
\* active, and the session is still that of "a".
C4_Witness ==
  /\ op = Op("StartDrag", "b", EmptyId)
  /\ result = "ok"
  /\ is_dragging_
  /\ active_drag_id_ = "a"
  /\ capture = "a"
  /\ notes = <<>>

\* C5: a handler that ends a drag session delivers exactly one DragEnded,
\* leaves the coordinator idle with the capture released, and no handler
\* delivers DragEnded more than once.
C5_ExactlyOneDragEnded ==
  /\ CountNote(notes, "DragEnded") <= 1
  /\ op.name \in {"OnMouseUp", "OnCaptureChanged"} /\ notes # <<>> =>
       /\ notes = <<Note("DragEnded", active_drag_id_)>>
       /\ ~is_dragging_
       /\ capture = NoCapture

\* Whether the drag session's window can take part in proximity detection:
\* it has an auto-snap config with a snapping edge and is nobody's follower.
CanAutoSnap ==
  /\ active_drag_id_ \in windows
  /\ active_drag_id_ \notin DOMAIN bindings_
  /\ active_drag_id_ \in DOMAIN auto_snap_configs_
  /\ auto_snap_configs_[active_drag_id_].can_snap_from # {}

\* Whether the dragged window, where it is now, is within threshold of an
\* eligible target.
WithinThreshold ==
  /\ CanAutoSnap
  /\ Matches(active_drag_id_, rect[active_drag_id_], bindings_,
             auto_snap_configs_, windows, rect, visible) # {}

\* C6: of the DragMoved callbacks of a drag of D, the one that brings D
\* within threshold emits exactly proximityEntered, each one after which
\* the same target and edge pair is still the match emits exactly
\* proximityUpdated, the one that leaves no match emits exactly
\* proximityExited and clears the proximity state, and one outside
\* threshold before and after emits nothing.
C6_ProximityHysteresis ==
  [][(op'.name = "OnMouseMove" /\ notes' # <<>> /\ CanAutoSnap) =>
       LET D == active_drag_id_
           P == proximity_state_
           Q == proximity_state_'
       IN /\ (P = NoProximity /\ WithinThreshold') =>
               /\ Q # NoProximity /\ Q.dragged_id = D
               /\ events' = <<Ev("proximityEntered", D, Q.target_id)>>
          /\ (P # NoProximity /\ WithinThreshold' /\ Q = P) =>
               events' = <<Ev("proximityUpdated", D, P.target_id)>>
          /\ (P # NoProximity /\ ~WithinThreshold') =>
               /\ Q = NoProximity
               /\ events' = <<Ev("proximityExited", D, P.target_id)>>
          /\ (P = NoProximity /\ ~WithinThreshold') =>
               Q = NoProximity /\ events' = <<>>
          /\ Q # NoProximity => WithinThreshold']_vars

\* C6 witness: "a", dragged, was in proximity of "b" and the last pointer
\* move took it out again.
C6_Witness ==
  /\ op.name = "OnMouseMove"
  /\ op.id = "a"
  /\ is_dragging_
  /\ events = <<Ev("proximityExited", "a", "b")>>
  /\ proximity_state_ = NoProximity

\* C10: Snap with a follower id or a target id that is not in the directory
\* fails, stores or replaces no binding, moves no window and emits no event.
C10_SnapUnknownIdFails ==
  [][(op'.name = "Snap" /\ (op'.id \notin windows \/ op'.arg \notin windows)) =>
       /\ result' # "ok"
       /\ bindings_' = bindings_
       /\ rect' = rect
       /\ moved' = {}
       /\ events' = <<>>]_vars

----------------------------------------------------------------------------
(* Properties of the animation interpolator *)

\* How many complete events a tick emitted for key k.
CountComplete(evs, k) ==
  Cardinality({i \in 1..Len(evs) : evs[i] = Ev("complete", k[1], k[2])})

\* The value of property k[2] of window k[1], as ApplyValue wrote it.
Written(k, R, O) ==
  IF k[2] = "x" THEN Int2Rat(R[k[1]].left)
  ELSE IF k[2] = "y" THEN Int2Rat(R[k[1]].top)
  ELSE IF k[2] = "width" THEN Int2Rat(R[k[1]].w)
  ELSE IF k[2] = "height" THEN Int2Rat(R[k[1]].h)
  ELSE O[k[1]]

\* C7: an accepted Animate leaves, under its (window, property) key, one
\* animation with that call's parameters and start time, whatever was
\* stored there before, and touches no other key; a tick applies to each
\* key the value of the animation stored under it, and emits exactly one
\* complete event for a key whose stored animation has run its duration
\* (removing it) and none for any other key.
C7_SecondAnimateWins ==
  [][/\ (op'.name = "Animate" /\ result' = "ok") =>
          LET prm == op'.arg
              k == Key(op'.id, prm[1])
          IN /\ DOMAIN animations_' = DOMAIN animations_ \cup {k}
             /\ animations_'[k].window_id = op'.id
             /\ animations_'[k].property = prm[1]
             /\ animations_'[k].to_value = prm[2]
             /\ animations_'[k].duration_ms = prm[3]
             /\ animations_'[k].easing = prm[4]
             /\ animations_'[k].start_time = now'
             /\ prm[5] # NoFrom => animations_'[k].from_value = prm[5]
             /\ \A j \in DOMAIN animations_ \ {k} : animations_'[j] = animations_[j]
     /\ op'.name = "Tick" =>
          /\ \A k \in DOMAIN animations_ :
               LET a == animations_[k]
                   done == now' - a.start_time >= a.duration_ms
                   v == TickValue(a, now')
               IN /\ CountComplete(events', k) = IF done THEN 1 ELSE 0
                  /\ done <=> k \notin DOMAIN animations_'
                  /\ ~done => animations_'[k] = a
                  /\ done => v = a.to_value
                  /\ k[1] \in windows =>
                       Written(k, rect', opacity') =
                         IF k[2] = "opacity" THEN v
                         ELSE Int2Rat(LogicalToPhysicalReal(v))
          /\ Len(events') = Cardinality(DOMAIN animations_ \ DOMAIN animations_')]_vars

\* C7 witness: the animation of x of "a" towards 12 was half way (x = 10)
\* when Animate for the same key, towards 4 from 0, replaced it.
C7_Witness ==
  /\ op.name = "Animate"
  /\ op.id = "a"
  /\ op.arg = <<"x", Int2Rat(4), 3, "easeInOut", Int2Rat(0)>>
  /\ result = "ok"
  /\ now = 1
  /\ rect["a"].left = 10
  /\ DOMAIN animations_ = {Key("a", "x")}
  /\ animations_[Key("a", "x")].to_value = Int2Rat(4)
  /\ animations_[Key("a", "x")].start_time = 1

\* The tick timer is running iff the animation table is not empty, and
\* there is at most one timer.
TimerMatchesTable ==
  /\ timer_id_ # 0 <=> animations_ # NoMap
  /\ timers = IF timer_id_ # 0 THEN 1 ELSE 0

\* C8: after every command and every tick the tick timer is running iff
\* the animation table is not empty and at most one timer exists; with the
\* table empty no tick fires, and Stop and StopAll write no window
\* property.
C8_TimerIffAnimations ==
  /\ []TimerMatchesTable
  /\ [][/\ op'.name = "Tick" => animations_ # NoMap
        /\ (animations_ = NoMap /\ op'.name \in {"Stop", "StopAll", "Tick"}) =>
             (rect' = rect /\ opacity' = opacity)]_vars

\* C8 witness: the tick that completed the last animation stopped the timer.
C8_Witness ==
  /\ op.name = "Tick"
  /\ events # <<>>
  /\ animations_ = NoMap
  /\ timer_id_ = 0
  /\ timers = 0

\* C9: every animation of the table belongs to a window of the directory,
\* and no tick emits a complete event for a window that is not.
C9_DestroyPurgesAnimations ==
  /\ \A k \in DOMAIN animations_ : animations_[k].window_id \in windows
  /\ op.name = "Tick" => \A i \in 1..Len(events) : events[i].id \in windows

----------------------------------------------------------------------------
(* Properties of the geometry and easing functions *)

\* Coordinate p aligns an extent ext_f to [lead, lead + ext_t] as al says;
\* centring an odd difference may round either way.
CrossAxisIs(p, lead, ext_t, ext_f, al) ==
  LET d == ext_t - ext_f
      q == p - lead
  IN IF al = "leading" THEN q = 0
     ELSE IF al = "trailing" THEN q = d
     ELSE 2 * q = d \/ (d % 2 = 1 /\ (2 * q = d - 1 \/ 2 * q = d + 1))

\* C11: for each complementary edge pair, alignment and gap the docked
\* position is the target's edge plus or minus gap (and the follower's
\* extent) on the snap axis and the aligned coordinate on the other axis;
\* target (100,100,200,150), follower 50x50, top/bottom, center, gap 4
\* gives (175, 254).
C11_DockedPosition ==
  op.name = "CalculateSnapPosition" =>
    LET tr == rect["b"]
        fr == rect["a"]
        fe == op.arg[2]
        te == op.arg[3]
        al == op.arg[4]
        gap == op.arg[5]
        x == result[1]
        y == result[2]
    IN /\ (fe = "top" /\ te = "bottom") =>
            y = tr.top + tr.h + gap /\ CrossAxisIs(x, tr.left, tr.w, fr.w, al)
       /\ (fe = "bottom" /\ te = "top") =>
            y = tr.top - fr.h - gap /\ CrossAxisIs(x, tr.left, tr.w, fr.w, al)
       /\ (fe = "left" /\ te = "right") =>
            x = tr.left + tr.w + gap /\ CrossAxisIs(y, tr.top, tr.h, fr.h, al)
       /\ (fe = "right" /\ te = "left") =>
            x = tr.left - fr.w - gap /\ CrossAxisIs(y, tr.top, tr.h, fr.h, al)
       /\ (/\ tr = [left |-> 100, top |-> 100, w |-> 200, h |-> 150]
           /\ fr.w = 50 /\ fr.h = 50
           /\ fe = "top" /\ te = "bottom" /\ al = "center" /\ gap = 4) =>
            result = <<175, 254>>

\* C11 witness: the position computed for the example of the specification.
C11_Witness ==
  /\ op = Op("CalculateSnapPosition", "a", <<"b", "top", "bottom", "center", 4>>)
  /\ rect["b"] = [left |-> 100, top |-> 100, w |-> 200, h |-> 150]
  /\ rect["a"].w = 50
  /\ result = <<175, 254>>

\* C12: AreCompatibleEdges is true for (top,bottom), (bottom,top),
\* (left,right), (right,left) and false for every other ordered pair.
C12_CompatibleEdges ==
  op.name = "AreCompatibleEdges" =>
    (result <=> <<op.id, op.arg>> \in {<<"top", "bottom">>, <<"bottom", "top">>,
                                        <<"left", "right">>, <<"right", "left">>})

\* C12 witness: the pair (top, top) was found incompatible.
C12_Witness ==
  /\ op = Op("AreCompatibleEdges", "top", "top")
  /\ result = FALSE

\* C13: for each easing kind the eased progress lies in [0,1], is 0 for
\* t <= 0 and 1 for t >= 1, and easeInOut gives 1/2 at t = 1/2.
C13_EasingEndpoints ==
  op.name = "ApplyEasing" =>
    LET t == op.arg
    IN /\ RatLeq(Zero, result) /\ RatLeq(result, One)
       /\ RatLeq(t, Zero) => result = Zero
       /\ RatLeq(One, t) => result = One
       /\ (op.id = "easeInOut" /\ t = <<1, 2>>) => result = <<1, 2>>

\* C13 witness: easeInOut applied at t = 1/2.
C13_Witness ==
  /\ op = Op("ApplyEasing", "easeInOut", <<1, 2>>)
  /\ result = <<1, 2>>

----------------------------------------------------------------------------
(* Properties of the snap commands *)

\* C14: Detach(f) of a bound f removes f's binding and emits exactly one
\* "detached" event; Detach(f) of an unbound f succeeds, changes no state
\* and emits nothing; no binding of another follower, whether or not it
\* targets f, is changed.
C14_DetachEffect ==
  [][(op'.name = "Detach" /\ op'.id # EmptyId) =>
       /\ result' = "ok"
       /\ DOMAIN bindings_' = DOMAIN bindings_ \ {op'.id}
       /\ \A g \in DOMAIN bindings_ \ {op'.id} : bindings_'[g] = bindings_[g]
       /\ op'.id \in DOMAIN bindings_ =>
            events' = <<Ev("detached", op'.id, EmptyId)>>
       /\ op'.id \notin DOMAIN bindings_ =>
            /\ events' = <<>>
            /\ UNCHANGED <<dirVars, snapVars, dragVars, animVars>>
       /\ moved' = {}
       /\ UNCHANGED <<dirVars, auto_snap_configs_, proximity_state_, dragVars>>]_vars

\* C14 witness: "a" and "b" were snapped to each other and "a" was
\* detached; the binding of "b", which targets "a", is still stored.
C14_Witness ==
  /\ op = Op("Detach", "a", EmptyId)
  /\ events = <<Ev("detached", "a", EmptyId)>>
  /\ DOMAIN bindings_ = {"b"}
  /\ bindings_["b"].target_id = "a"

\* C14 witness of the repeated call: Detach of a follower with no binding.
C14_WitnessRepeated ==
  /\ op = Op("Detach", "a", EmptyId)
  /\ result = "ok"
  /\ events = <<>>
  /\ "a" \notin DOMAIN bindings_

\* C17: ReSnap(f) never changes the binding map.  With f bound it moves f,
\* and no other window, to the position CalculateSnapPosition gives for
\* f's binding; with f unbound it fails with NOT_FOUND, moves no window
\* and emits no event.
C17_ReSnapKeepsBinding ==
  [][(op'.name = "ReSnap" /\ op'.id # EmptyId) =>
       LET f == op'.id
       IN /\ bindings_' = bindings_
          /\ f \in DOMAIN bindings_ =>
               /\ result' = "ok"
               /\ \A w \in Ids \ {f} : rect'[w] = rect[w]
               /\ f \in windows =>
                    /\ <<rect'[f].left, rect'[f].top>> =
                         CalculateSnapPosition(bindings_[f], windows, rect)
                    /\ rect'[f].w = rect[f].w /\ rect'[f].h = rect[f].h
                    /\ moved' = {f}
               /\ f \notin windows => rect' = rect /\ moved' = {}
          /\ f \notin DOMAIN bindings_ =>
               /\ result' = "NOT_FOUND"
               /\ rect' = rect
               /\ moved' = {}
               /\ events' = <<>>]_vars

\* C17 witness: ReSnap of "a", bound below "b" (at the origin, 2 high),
\* as third command: "a" is at (0,2) and its binding is as it was stored.
C17_Witness ==
  /\ op = Op("ReSnap", "a", EmptyId)
  /\ result = "ok"
  /\ moved = {"a"}
  /\ steps = 3
  /\ "a" \in DOMAIN bindings_
  /\ bindings_["a"] = Binding("a", "b", "top", "bottom", "center", 0)
  /\ rect["a"].left = 0 /\ rect["a"].top = 2

----------------------------------------------------------------------------
(* Properties of the end of a drag *)

\* C20: when a drag of D ends (mouse button released, or capture lost)
\* with a proximity match recorded for D, D's binding becomes {follower D,
\* the matched target, the matched edge pair, alignment center, gap 4}, D
\* is moved to the docked position of that binding, exactly one "snapped"
\* event naming the target is emitted and the proximity state is cleared;
\* with no match recorded for D no binding changes, no window moves and
\* nothing is emitted.
C20_DragEndedMaterialises ==
  [][(op'.name \in {"OnMouseUp", "OnCaptureChanged"}
      /\ CountNote(notes', "DragEnded") > 0) =>
       LET D == active_drag_id_
           P == proximity_state_
       IN IF P # NoProximity /\ P.dragged_id = D
          THEN LET b == [follower_id |-> D, target_id |-> P.target_id,
                         follower_edge |-> P.dragged_edge,
                         target_edge |-> P.target_edge,
                         alignment |-> "center", gap |-> 4]
               IN /\ bindings_' = With(bindings_, D, b)
                  /\ D \in windows =>
                       /\ <<rect'[D].left, rect'[D].top>> =
                            CalculateSnapPosition(b, windows, rect)
                       /\ moved' = {D}
                  /\ \A w \in Ids \ {D} : rect'[w] = rect[w]
                  /\ events' = <<Ev("snapped", D, P.target_id)>>
                  /\ proximity_state_' = NoProximity
          ELSE /\ bindings_' = bindings_
               /\ rect' = rect
               /\ moved' = {}
               /\ events' = <<>>]_vars

\* C20 witness: "a" was dropped with its left edge near the right edge of
\* "b" (which ends at x = 4): it is bound to "b" with gap 4 and stands at
\* x = 8, and no proximity match is recorded any more.
C20_Witness ==
  /\ op.name \in {"OnMouseUp", "OnCaptureChanged"}
  /\ events = <<Ev("snapped", "a", "b")>>
  /\ "a" \in DOMAIN bindings_
  /\ bindings_["a"] = Binding("a", "b", "left", "right", "center", 4)
  /\ rect["a"].left = 8
  /\ proximity_state_ = NoProximity

\* C20 witness of the other case: a drag ended with no match recorded.
C20_WitnessNoMatch ==
  /\ op.name \in {"OnMouseUp", "OnCaptureChanged"}
  /\ CountNote(notes, "DragEnded") > 0
  /\ events = <<>>

----------------------------------------------------------------------------
(* Properties of the auto-snap configuration *)

\* Whether cfg is the absent (null) config or one whose canSnapFrom and
\* acceptsSnapOn sets are both empty.
ClearsConfig(cfg) ==
  \/ cfg = NullConfig
  \/ cfg # NullConfig /\ cfg.can_snap_from = {} /\ cfg.accepts_snap_on = {}

\* C18: after SetAutoSnapConfig(w, null), and after SetAutoSnapConfig(w,
\* config with both edge sets empty), w has no AutoSnapConfig, whatever
\* config it had before.
C18_NullOrEmptyConfigClears ==
  (op.name = "SetAutoSnapConfig" /\ result = "ok" /\ ClearsConfig(op.arg)) =>
    op.id \notin DOMAIN auto_snap_configs_

----------------------------------------------------------------------------
(* Properties of cancelling animations *)

\* The animations of table A that belong to window w.
AnimationsOf(A, w) == {k \in DOMAIN A : A[k].window_id = w}

\* C15: Stop(w) removes exactly the animations of window w, emits no
\* event and writes no window property; a tick writes no property of, and
\* emits no complete event for, a window that has no animation in the
\* table, so nothing of a stopped animation is applied later; IsAnimating(w)
\* reports whether the table holds an animation of w, hence false after
\* Stop(w); Stop(w) with no animation of w changes nothing; StopAll empties
\* the table and emits nothing.
C15_StopCancels ==
  [][/\ (op'.name = "Stop" /\ op'.id # EmptyId) =>
          /\ result' = "ok"
          /\ DOMAIN animations_' = DOMAIN animations_ \ AnimationsOf(animations_, op'.id)
          /\ \A k \in DOMAIN animations_' : animations_'[k] = animations_[k]
          /\ events' = <<>>
          /\ rect' = rect /\ opacity' = opacity
          /\ AnimationsOf(animations_, op'.id) = {} =>
               UNCHANGED <<dirVars, snapVars, dragVars, animVars>>
     /\ op'.name = "StopAll" =>
          /\ animations_' = NoMap
          /\ events' = <<>>
          /\ rect' = rect /\ opacity' = opacity
     /\ op'.name = "Tick" =>
          \A w \in Ids :
            AnimationsOf(animations_, w) = {} =>
              /\ rect'[w] = rect[w]
              /\ opacity'[w] = opacity[w]
              /\ \A i \in 1..Len(events') : events'[i].id # w
     /\ op'.name = "IsAnimating" =>
          /\ result' = (AnimationsOf(animations_, op'.id) # {})
          /\ (op.name = "Stop" /\ op.id = op'.id) => result' = FALSE
          /\ UNCHANGED <<dirVars, snapVars, dragVars, animVars>>]_vars

\* C15 witness: after Stop("a") the table holds animations of "b" only
\* and the tick timer is still running.
C15_Witness ==
  /\ op = Op("Stop", "a", EmptyId)
  /\ result = "ok"
  /\ animations_ # NoMap
  /\ \A k \in DOMAIN animations_ : animations_[k].window_id = "b"
  /\ timer_id_ # 0

\* C15 witness of the query: IsAnimating("a") answered true.
C15_WitnessQuery ==
  /\ op = Op("IsAnimating", "a", EmptyId)
  /\ result = TRUE

----------------------------------------------------------------------------
(* Properties of the snap distance query *)

\* The distance zero, as GetSnapDistance reports it.
ZeroDistance == [squared |-> Zero]

\* C16: GetSnapDistance(f) changes no state; it returns 0 when f is
\* empty, has no binding or is not a window; for a bound window f it
\* returns the Euclidean distance from f's top-left corner to the docked
\* position of its binding; and it returns 0 when it follows directly a
\* successful Snap(f, ...) or ReSnap(f).
C16_SnapDistance ==
  [][op'.name = "GetSnapDistance" =>
       LET f == op'.id
       IN /\ UNCHANGED <<dirVars, snapVars, dragVars, animVars>>
          /\ events' = <<>>
          /\ (f = EmptyId \/ f \notin DOMAIN bindings_ \/ f \notin windows) =>
               result' = ZeroDistance
          /\ (f \in DOMAIN bindings_ /\ f \in windows) =>
               LET pos == CalculateSnapPosition(bindings_[f], windows, rect)
                   dx == pos[1] - rect[f].left
                   dy == pos[2] - rect[f].top
               IN result'.squared = Int2Rat(dx * dx + dy * dy)
          /\ (op.name \in {"Snap", "ReSnap"} /\ result = "ok" /\ op.id = f) =>
               result' = ZeroDistance]_vars

----------------------------------------------------------------------------
(* Properties of starting a drag *)

\* C19: startDrag, as frame command or on the palette's own channel, for a
\* window that is not in the directory or whose draggable flag is false
\* starts no session: the coordinator's state, the capture and the
\* subclassed windows are unchanged, no DragBegan is delivered and no
\* binding is detached; for a window not in the directory the answer is
\* NOT_FOUND.
C19_NoDragOfUndraggable ==
  [][(/\ op'.name \in {"StartDrag", "SelfStartDrag"}
      /\ (op'.id \notin windows \/ ~draggable[op'.id])) =>
       /\ UNCHANGED <<is_dragging_, active_drag_id_, capture, subclassed>>
       /\ UNCHANGED <<dirVars, snapVars, dragVars, animVars>>
       /\ notes' = <<>>
       /\ events' = <<>>
       /\ op'.id \notin windows => result' = "NOT_FOUND"]_vars

\* C19 witness: startDrag of window "a", made not draggable, on the frame
\* command path, with the coordinator idle afterwards.
C19_Witness ==
  /\ op = Op("StartDrag", "a", EmptyId)
  /\ "a" \in windows
  /\ ~draggable["a"]
  /\ result = "ok"
  /\ ~is_dragging_
  /\ capture = NoCapture
  /\ notes = <<>>

\* C19 witness of the other path and case: startDrag on the own channel of
\* a palette the directory does not know.
C19_WitnessUnknown ==
  /\ op = Op("SelfStartDrag", "a", EmptyId)
  /\ "a" \notin windows
  /\ result = "NOT_FOUND"
  /\ ~is_dragging_

----------------------------------------------------------------------------
(* Properties of the start of a drag *)

\* C21: when a drag of D begins (DragBegan(D) is delivered), D's binding,
\* if it has one, is removed and exactly one "detached" event is emitted,
\* and none if it has none; every binding of another follower, whether or
\* not it targets D, is kept; a proximity state whose dragged window is D
\* is cleared and any other is left as it is.
C21_DragBeganDetaches ==
  [][(op'.name \in {"StartDrag", "SelfStartDrag"}
      /\ CountNote(notes', "DragBegan") > 0) =>
       LET D == op'.id
       IN /\ notes' = <<Note("DragBegan", D)>>
          /\ DOMAIN bindings_' = DOMAIN bindings_ \ {D}
          /\ \A g \in DOMAIN bindings_ \ {D} : bindings_'[g] = bindings_[g]
          /\ events' = IF D \in DOMAIN bindings_
                       THEN <<Ev("detached", D, EmptyId)>> ELSE <<>>
          /\ proximity_state_' =
               IF proximity_state_ # NoProximity /\ proximity_state_.dragged_id = D
               THEN NoProximity ELSE proximity_state_
          /\ UNCHANGED <<dirVars, auto_snap_configs_>>]_vars

\* C21 witness: "a" and "b" were snapped to each other and a drag of "a"
\* began: "a" is detached, "b" still follows "a".
C21_Witness ==
  /\ op = Op("StartDrag", "a", EmptyId)
  /\ notes = <<Note("DragBegan", "a")>>
  /\ events = <<Ev("detached", "a", EmptyId)>>
  /\ DOMAIN bindings_ = {"b"}
  /\ bindings_["b"].target_id = "a"
  /\ is_dragging_

----------------------------------------------------------------------------
(* Properties of the parameters of Animate *)

\* C22: Animate without a window id fails with MISSING_ID and Animate for
\* a window that is not in the directory fails with NOT_FOUND; in both
\* cases the animation table, the timer and every window property are
\* left as they were.
C22_AnimateUnknownWindow ==
  [][op'.name = "Animate" =>
       /\ op'.id = EmptyId => result' = "MISSING_ID"
       /\ (op'.id # EmptyId /\ op'.id \notin windows) => result' = "NOT_FOUND"
       /\ (op'.id = EmptyId \/ op'.id \notin windows) =>
            /\ UNCHANGED <<animations_, timer_id_, timers, rect, opacity>>
            /\ events' = <<>>
            /\ moved' = {}]_vars

\* C22 witness: Animate for a window that does not exist, refused while
\* animations of another window are running.
C22_Witness ==
  /\ op.name = "Animate"
  /\ op.id \notin windows
  /\ result = "NOT_FOUND"
  /\ animations_ # NoMap
  /\ timer_id_ # 0

\* C22 witness of the other case: Animate without a window id.
C22_WitnessMissingId ==
  /\ op.name = "Animate"
  /\ op.id = EmptyId
  /\ result = "MISSING_ID"

\* The properties AnimationService can animate.
AnimatableProperties == {"x", "y", "width", "height", "opacity"}

\* C23: Animate whose "property" is missing or is none of x, y, width,
\* height, opacity is answered with an error, stores no animation and
\* starts no timer.
C23_AnimateBadProperty ==
  [][(op'.name = "Animate" /\ op'.arg[1] \notin AnimatableProperties) =>
       /\ result' # "ok"
       /\ animations_' = animations_
       /\ timer_id_' = timer_id_
       /\ timers' = timers]_vars

RECURSIVE AfterAnimateCalls(_, _, _, _, _, _, _, _)
\* Table, timer and last answer after Animate(w, p) for each p of list in
\* order, at time n, as the Animate command leaves them.
AfterAnimateCalls(list, w, A, tid, tmrs, n, W, answer) ==
  IF list = <<>>
  THEN [animations |-> A, timer_id |-> tid, timers |-> tmrs, answer |-> answer]
  ELSE IF w \notin W
  THEN AfterAnimateCalls(Tail(list), w, A, tid, tmrs, n, W, "NOT_FOUND")
  ELSE LET tm == StartTimer(tid, tmrs)
       IN AfterAnimateCalls(Tail(list), w, Stored(A, w, Head(list), n, rect, opacity),
                            tm[1], tm[2], n, W, "ok")

\* C24: AnimateMultiple(w, list) leaves the animation table and the timer
\* as the calls Animate(w, p), for each p of the list in order, leave
\* them, and when w is not in the directory it answers with the failure
\* those calls answer with.
C24_AnimateMultipleIsSugar ==
  [][(op'.name = "AnimateMultiple" /\ op'.id # EmptyId) =>
       LET c == AfterAnimateCalls(op'.arg, op'.id, animations_, timer_id_, timers,
                                  now, windows, "ok")
       IN /\ animations_' = c.animations
          /\ timer_id_' = c.timer_id
          /\ timers' = c.timers
          /\ op'.id \notin windows => result' = c.answer]_vars

----------------------------------------------------------------------------
(* Properties of pointer moves during a drag *)

----------------------------------------------------------------------------
(* Properties of target following *)

\* Whether, in rectangles R, window f stands at the docked position of
\* its binding in B.
Docked(f, B, W, R) ==
  <<R[f].left, R[f].top>> = CalculateSnapPosition(B[f], W, R)

\* C26: when the handler that ends in OnWindowShown(T) (the reveal of T),
\* in OnWindowMoved(T) (setPosition of T) or in DragMoved(T, frame) (a
\* pointer move of the drag of T) returns, every window that follows T
\* stands at the docked position of its binding for T's frame at that
\* moment, and no window other than T and its followers has moved.
C26_FollowersDocked ==
  [][(\/ op'.name = "Reveal"
      \/ op'.name = "SetPosition" /\ result' = "ok"
      \/ op'.name = "OnMouseMove" /\ is_dragging_) =>
       LET T == IF op'.name = "OnMouseMove" THEN active_drag_id_ ELSE op'.id
           F == FollowersOf(bindings_', T) \cap windows
       IN /\ \A f \in F : Docked(f, bindings_', windows, rect')
          /\ \A w \in Ids \ (F \cup {T}) : rect'[w] = rect[w]
          /\ op'.name = "Reveal" /\ T \notin F => rect'[T] = rect[T]]_vars

----------------------------------------------------------------------------
(* Properties of the proximity detection *)

\* C27: a pointer move of the drag of D runs the proximity detection iff D
\* has no binding: with D bound no proximity event is emitted and the
\* proximity state stays as it is; with D unbound the proximity state and
\* the events are those of the detection for D's new frame.
C27_DetectionIffUnbound ==
  [][(op'.name = "OnMouseMove" /\ is_dragging_) =>
       LET D == active_drag_id_
       IN IF D \in DOMAIN bindings_
          THEN /\ events' = <<>>
               /\ proximity_state_' = proximity_state_
          ELSE \E cp \in CheckProximity(D, notes'[1].frame, bindings_,
                                        auto_snap_configs_, proximity_state_,
                                        windows, rect', visible) :
                 /\ proximity_state_' = cp.prox
                 /\ events' = cp.events]_vars

\* C27 witness: "a" was bound to "b" by a snap command during its drag; a
\* pointer move left it with its left edge 1 from the right edge of "b",
\* within the threshold 3, and no proximity was detected.
C27_Witness ==
  /\ op.name = "OnMouseMove"
  /\ op.id = "a"
  /\ is_dragging_
  /\ "a" \in DOMAIN bindings_
  /\ bindings_["a"].target_id = "b"
  /\ {"a", "b"} \subseteq DOMAIN auto_snap_configs_
  /\ visible["b"]
  /\ rect["a"].left - Right(rect["b"]) = 1
  /\ rect["a"].top = rect["b"].top
  /\ events = <<>>
  /\ proximity_state_ = NoProximity

\* The (target, dragged edge, target edge) triples eligible for a drag of
\* D standing at `frame`, with configs C, bindings B and rectangles R.
Eligible(D, frame, B, C, W, R, V) ==
  {x \in (Ids \ {D}) \X Edges \X Edges :
     LET t == x[1]
         de == x[2]
         te == x[3]
     IN /\ t \in DOMAIN C
        /\ C[t].accepts_snap_on # {}
        /\ C[D].target_ids # {} => t \in C[D].target_ids
        /\ ~(t \in DOMAIN B /\ B[t].target_id = D)
        /\ t \in W
        /\ V[t]
        /\ de \in C[D].can_snap_from
        /\ te \in C[t].accepts_snap_on
        /\ <<de, te>> \in {<<"top", "bottom">>, <<"bottom", "top">>,
                           <<"left", "right">>, <<"right", "left">>}
        /\ IF de \in {"top", "bottom"}
           THEN Min(frame.left + frame.w, R[t].left + R[t].w) > Max(frame.left, R[t].left)
           ELSE Min(frame.top + frame.h, R[t].top + R[t].h) > Max(frame.top, R[t].top)}

\* The distance between the two edges of an eligible triple.
EdgeGap(x, frame, R) ==
  LET r == R[x[1]]
  IN IF x[2] = "top" THEN Abs(frame.top - (r.top + r.h))
     ELSE IF x[2] = "bottom" THEN Abs(frame.top + frame.h - r.top)
     ELSE IF x[2] = "left" THEN Abs(frame.left - (r.left + r.w))
     ELSE Abs(frame.left + frame.w - r.left)

C28_WitnessMatch ==
  /\ op.name = "OnMouseMove"
  /\ op.id = "a"
  /\ "a" \in DOMAIN auto_snap_configs_
  /\ auto_snap_configs_["a"].target_ids = {"b"}
  /\ proximity_state_ = Proximity("a", "b", "left", "right")
  /\ rect["a"].left - Right(rect["b"]) = 1

\* C28 witness of the allow-list: "b" stands within the threshold but the
\* allow-list of "a" does not name it.
C28_WitnessFiltered ==
  /\ op.name = "OnMouseMove"
  /\ op.id = "a"
  /\ is_dragging_
  /\ "a" \in DOMAIN auto_snap_configs_
  /\ auto_snap_configs_["a"].target_ids = {"c"}
  /\ "b" \in DOMAIN auto_snap_configs_
  /\ visible["b"]
  /\ rect["a"].left - Right(rect["b"]) = 1
  /\ rect["a"].top = rect["b"].top
  /\ proximity_state_ = NoProximity

\* C29: when the proximity detection of a pointer move runs for a dragged
\* window D without AutoSnapConfig, or whose config has no edge to snap
\* from, no proximity state is recorded afterwards; exactly one
\* proximityExited, naming the recorded target, is emitted if a state was
\* recorded and nothing otherwise.
C29_LostConfigExits ==
  [][(/\ op'.name = "OnMouseMove"
      /\ is_dragging_
      /\ active_drag_id_ \notin DOMAIN bindings_
      /\ \/ active_drag_id_ \notin DOMAIN auto_snap_configs_
         \/ auto_snap_configs_[active_drag_id_].can_snap_from = {}) =>
       /\ proximity_state_' = NoProximity
       /\ events' = IF proximity_state_ # NoProximity
                    THEN <<Ev("proximityExited", active_drag_id_,
                              proximity_state_.target_id)>>
                    ELSE <<>>]_vars

\* C29 witness: the config of "a" was cleared while "a" was dragged in
\* proximity of "b"; the next pointer move, still 1 from "b", emitted
\* proximityExited and cleared the state.
C29_Witness ==
  /\ op.name = "OnMouseMove"
  /\ op.id = "a"
  /\ is_dragging_
  /\ "a" \notin DOMAIN auto_snap_configs_
  /\ "b" \in DOMAIN auto_snap_configs_
  /\ visible["b"]
  /\ rect["a"].left - Right(rect["b"]) = 1
  /\ events = <<Ev("proximityExited", "a", "b")>>
  /\ proximity_state_ = NoProximity

\* C29 witness of a config without usable edges: "a" may only accept
\* snaps; the pointer move after the config was replaced exited.
C29_WitnessNoEdges ==
  /\ op.name = "OnMouseMove"
  /\ op.id = "a"
  /\ "a" \in DOMAIN auto_snap_configs_
  /\ auto_snap_configs_["a"].can_snap_from = {}
  /\ events = <<Ev("proximityExited", "a", "b")>>
  /\ proximity_state_ = NoProximity


----------------------------------------------------------------------------
(* C30 *)

RECURSIVE Alternates(_, _)
\* The proximity events of evs continue a strict alternation, open being
\* the target of the proximityEntered that is still open before them:
\* proximityEntered only when none is open, proximityExited and
\* proximityUpdated only when one is.
Alternates(evs, open) ==
  IF evs = <<>> THEN TRUE
  ELSE IF Head(evs).event = "proximityEntered"
       THEN open = EmptyId /\ Alternates(Tail(evs), Head(evs).data)
  ELSE IF Head(evs).event = "proximityExited"
       THEN open # EmptyId /\ Alternates(Tail(evs), EmptyId)
  ELSE IF Head(evs).event = "proximityUpdated"
       THEN open # EmptyId /\ Alternates(Tail(evs), open)
  ELSE Alternates(Tail(evs), open)

\* C30: within one drag session proximityEntered and proximityExited
\* alternate, whatever commands and lifecycle notifications interleave:
\* every handler's events continue the alternation from the
\* proximityEntered left open before it (none once a DragBegan was
\* delivered), so a change of match puts proximityExited for the old
\* match before proximityEntered for the new one.
C30_EnteredExitedAlternate ==
  [][Alternates(events',
                IF \E i \in 1..Len(notes') : notes'[i].note = "DragBegan"
                THEN EmptyId ELSE entered)]_vars



----------------------------------------------------------------------------
(* C31 *)

\* t >= 1 for t = elapsed / d (a positive elapsed over 0 is infinite).
TReached(elapsed, d) ==
  IF d = 0 THEN elapsed > 0 ELSE RatLeq(One, Rat(elapsed, d))

\* v is a number between a and b inclusive, whichever of them is larger.
Between(a, v, b) ==
  /\ v # NaN /\ a # NaN /\ b # NaN
  /\ \/ RatLeq(a, v) /\ RatLeq(v, b)
     \/ RatLeq(b, v) /\ RatLeq(v, a)

\* The places in the calls of a tick where name was called for the
\* animation of window w and property p.
CallsFor(calls, name, w, p) ==
  {i \in 1..Len(calls) :
     /\ calls[i].note = name /\ calls[i].id = w
     /\ IF name = "ApplyValue" THEN calls[i].frame[1] = p ELSE calls[i].frame = p}

\* C31: on each tick, every animation of the table gets one value written.
\* If t = elapsed/duration >= 1 the value is exactly to_value, the
\* animation leaves the table and exactly one complete event with its
\* property is emitted, after the write.  Otherwise the value is
\* from + (to - from) * ease(t), it lies between from and to inclusive,
\* the animation stays in the table unchanged and no complete event is
\* emitted for it.
C31_TickStep ==
  [][op'.name = "Tick" =>
       \A k \in DOMAIN animations_ :
         LET anim == animations_[k]
             elapsed == now' - anim.start_time
             writes == CallsFor(notes', "ApplyValue", anim.window_id, anim.property)
             sinks == CallsFor(notes', "complete", anim.window_id, anim.property)
             evs == {i \in 1..Len(events') :
                       events'[i] = Ev("complete", anim.window_id, anim.property)}
         IN /\ Cardinality(writes) = 1
            /\ \A i \in writes :
                 IF TReached(elapsed, anim.duration_ms)
                 THEN /\ notes'[i].frame[2] = anim.to_value
                      /\ k \notin DOMAIN animations_'
                      /\ Cardinality(evs) = 1
                      /\ Cardinality(sinks) = 1
                      /\ \A j \in sinks : i < j
                 ELSE /\ Between(anim.from_value, notes'[i].frame[2], anim.to_value)
                      /\ (anim.duration_ms # 0 /\ anim.from_value # NaN) =>
                           notes'[i].frame[2] =
                             RatAdd(anim.from_value,
                                    RatMul(RatSub(anim.to_value, anim.from_value),
                                           ApplyEasing(Rat(elapsed, anim.duration_ms),
                                                       anim.easing)))
                      /\ k \in DOMAIN animations_'
                      /\ animations_'[k] = anim
                      /\ evs = {}
                      /\ sinks = {}]_vars



----------------------------------------------------------------------------
(* C32 *)

\* What property p of window w is: a physical coordinate or extent, or the
\* opacity.
PropertyOf(R, O, w, p) ==
  IF p = "x" THEN R[w].left
  ELSE IF p = "y" THEN R[w].top
  ELSE IF p = "width" THEN R[w].w
  ELSE IF p = "height" THEN R[w].h
  ELSE O[w]

\* C32: after a tick, every property of every window that the tick applied
\* a value to has that value (in physical pixels for geometry), and every
\* property it applied none to is what it was before: x and y leave the
\* size and the other coordinate alone, width and height the position and
\* the other extent, opacity the geometry.  With several properties of one
\* window animated, all their values are in effect, in whatever order the
\* table was iterated.
C32_AxesIndependent ==
  [][op'.name = "Tick" =>
       \A w \in windows, p \in AnimatableProperties :
         LET calls == CallsFor(notes', "ApplyValue", w, p)
         IN IF calls = {}
            THEN PropertyOf(rect', opacity', w, p) = PropertyOf(rect, opacity, w, p)
            ELSE \A i \in calls :
                   PropertyOf(rect', opacity', w, p) =
                     IF p = "opacity" THEN notes'[i].frame[2]
                     ELSE LogicalToPhysicalReal(notes'[i].frame[2])]_vars

\* C32 witness: one tick applied x and y to window "a", in flight and to
\* different values, and both are in effect; its size is what it was.
C32_Witness ==
  /\ op.name = "Tick"
  /\ \E i, j \in 1..Len(notes) :
       /\ notes[i].note = "ApplyValue" /\ notes[i].id = "a"
       /\ notes[i].frame = <<"x", Int2Rat(10)>>
       /\ notes[j].note = "ApplyValue" /\ notes[j].id = "a"
       /\ notes[j].frame = <<"y", Int2Rat(2)>>
  /\ rect["a"] = [left |-> 10, top |-> 2, w |-> 4, h |-> 2]

\* C32 witness: y was applied after x in one tick and x before y in
\* another.
C32_WitnessOrder ==
  /\ op.name = "Tick"
  /\ Len(notes) = 2
  /\ notes[1].frame[1] = "y" /\ notes[2].frame[1] = "x"
  /\ notes[1].id = notes[2].id



----------------------------------------------------------------------------
(* C33 *)

\* C33: when a handler delivered DragEnded(D) and auto-snap bound D to a
\* target (snapped(D, t) was emitted), t is not a follower of D: the two
\* do not follow each other, whatever Snap, Detach and SetAutoSnapConfig
\* commands came between the drag callbacks.
C33_AutoSnapNoMutualFollow ==
  [][\A i \in 1..Len(notes'), j \in 1..Len(events') :
       (/\ notes'[i].note = "DragEnded"
        /\ events'[j].event = "snapped"
        /\ events'[j].id = notes'[i].id)
       => LET D == events'[j].id
              t == events'[j].data
          IN ~(t \in DOMAIN bindings_' /\ bindings_'[t].target_id = D)]_vars



----------------------------------------------------------------------------
(* C34 *)

\* C34: every binding of the binding map, made by a Snap command or by
\* auto-snap at DragEnded, joins two edges that face each other: top to
\* bottom, bottom to top, left to right or right to left.
C34_ComplementaryPairs ==
  \A f \in DOMAIN bindings_ :
    <<bindings_[f].follower_edge, bindings_[f].target_edge>> \in
      {<<"top", "bottom">>, <<"bottom", "top">>,
       <<"left", "right">>, <<"right", "left">>}



----------------------------------------------------------------------------
(* C35 *)

\* C35: while a proximity match is recorded, a drag session is active, the
\* match's dragged_id is the window of that session and its target_id is
\* another window; while no drag session is active, no match is recorded.
C35_ProximityOnlyInDrag ==
  /\ proximity_state_ # NoProximity =>
       /\ is_dragging_
       /\ proximity_state_.dragged_id = active_drag_id_
       /\ proximity_state_.target_id # proximity_state_.dragged_id
  /\ ~is_dragging_ => proximity_state_ = NoProximity

\* C35 witness: the pointer was released on a dragged window that was in
\* proximity of a target; DragEnded has made the binding, no session is
\* active and no match is recorded.
C35_Witness ==
  /\ op.name = "OnMouseUp"
  /\ \E i \in 1..Len(notes) : notes[i] = Note("DragEnded", op.id)
  /\ \E i \in 1..Len(events) : events[i].event = "snapped" /\ events[i].id = op.id
  /\ ~is_dragging_
  /\ proximity_state_ = NoProximity

\* C35 witness: a match is recorded in the middle of a session, for the
\* dragged window and another one.
C35_WitnessPresent ==
  /\ is_dragging_
  /\ proximity_state_ # NoProximity
  /\ proximity_state_.dragged_id = active_drag_id_
  /\ op.name = "OnMouseMove"



----------------------------------------------------------------------------
(* C36 *)

\* C36: while a drag session is active (DragBegan delivered, DragEnded not
\* yet) the dragged window is the follower of no binding, whatever
\* commands the caller issues meanwhile; so the binding auto-snap makes at
\* DragEnded never replaces one that a Snap command installed.
C36_DraggedIsUnbound ==
  [][/\ is_dragging_' => active_drag_id_' \notin DOMAIN bindings_'
     /\ \A i \in 1..Len(notes'), j \in 1..Len(events') :
          (/\ notes'[i].note = "DragEnded"
           /\ events'[j].event = "snapped"
           /\ events'[j].id = notes'[i].id)
          => notes'[i].id \notin DOMAIN bindings_]_vars

\* The second half of C36 alone: a binding made by auto-snap at DragEnded
\* replaces none.
C36_AutoSnapReplacesNone ==
  [][\A i \in 1..Len(notes'), j \in 1..Len(events') :
       (/\ notes'[i].note = "DragEnded"
        /\ events'[j].event = "snapped"
        /\ events'[j].id = notes'[i].id)
       => notes'[i].id \notin DOMAIN bindings_]_vars



----------------------------------------------------------------------------
(* C37 *)

\* C37: no binding of the binding map has its follower as its target: no
\* window follows itself, whatever Snap commands and auto-snaps came
\* before.
C37_NoSelfFollow ==
  \A f \in DOMAIN bindings_ : bindings_[f].target_id # f



----------------------------------------------------------------------------
(* C38 *)

----------------------------------------------------------------------------
(* C39 *)

----------------------------------------------------------------------------
(* Text selection monitoring: the UI-Automation handlers run on background
   threads and push on event_queue_ under queue_mutex_; the 50 ms poll
   timer runs ProcessPendingEvents on the UI thread *)

\* Handler calls made by UI Automation in one exploration
MaxEvents == 3

\* What ReadSelectionFromElement can return and put in `out`: true with a
\* text and its bounding box, with another text, with a text without
\* bounds; or false
SelectionReads ==
  { [ok |-> TRUE, text |-> "s", box |-> <<1, 0, 4, 2>>, has_bounds |-> TRUE],
    [ok |-> TRUE, text |-> "t", box |-> <<1, 0, 4, 2>>, has_bounds |-> TRUE],
    [ok |-> TRUE, text |-> "s", box |-> NoBox, has_bounds |-> FALSE],
    [ok |-> FALSE, text |-> "", box |-> NoBox, has_bounds |-> FALSE] }

\* A TextSelectionEvent; n numbers the handler calls in the order they
\* began and is not a field of the struct
Event(text, box, has_bounds, is_focus_change, n) ==
  [text |-> text, box |-> box, has_bounds |-> has_bounds,
   is_focus_change |-> is_focus_change, n |-> n]

\* Handler calls begun so far
Begun == Len(enqueued) + Cardinality({t \in Threads : handlers[t].pc # "idle"})

\* TextSelectionService::StartMonitoring, with whether EnsureUIAutomation
\* and the two subscriptions succeed
StartMonitoring(uia_ok) ==
  /\ poll.pc = "idle"
  /\ monitoring_' = (monitoring_ \/ uia_ok)
  /\ UNCHANGED <<event_queue_, queue_mutex_, handlers, poll, clear_timer_id_,
                 last_, enqueued, processed>>
  /\ UNCHANGED <<dirVars, snapVars, dragVars, animVars, outVars>>

\* SelectionHandler::HandleAutomationEvent up to the lock_guard: the event
\* is built from what ReadSelectionFromElement returned (on false a
\* default-constructed event is queued instead)
HandleAutomationEvent(t, read) ==
  /\ monitoring_
  /\ handlers[t].pc = "idle"
  /\ Begun < MaxEvents
  /\ handlers' = [handlers EXCEPT ![t] =
       [pc |-> "built",
        evt |-> IF ~read.ok
                THEN Event("", NoBox, FALSE, FALSE, Begun + 1)
                ELSE Event(read.text, read.box, read.has_bounds, FALSE, Begun + 1)]]
  /\ UNCHANGED <<monitoring_, event_queue_, queue_mutex_, poll, clear_timer_id_,
                 last_, enqueued, processed>>
  /\ UNCHANGED <<dirVars, snapVars, dragVars, animVars, outVars>>

\* FocusHandler::HandleFocusChangedEvent up to the lock_guard
HandleFocusChangedEvent(t) ==
  /\ monitoring_
  /\ handlers[t].pc = "idle"
  /\ Begun < MaxEvents
  /\ handlers' = [handlers EXCEPT ![t] =
       [pc |-> "built", evt |-> Event("", NoBox, FALSE, TRUE, Begun + 1)]]
  /\ UNCHANGED <<monitoring_, event_queue_, queue_mutex_, poll, clear_timer_id_,
                 last_, enqueued, processed>>
  /\ UNCHANGED <<dirVars, snapVars, dragVars, animVars, outVars>>

\* std::lock_guard<std::mutex> lock(service_->queue_mutex_) in a handler
HandlerLock(t) ==
  /\ handlers[t].pc = "built"
  /\ queue_mutex_ = EmptyId
  /\ queue_mutex_' = t
  /\ handlers' = [handlers EXCEPT ![t].pc = "locked"]
  /\ UNCHANGED <<monitoring_, event_queue_, poll, clear_timer_id_, last_,
                 enqueued, processed>>
  /\ UNCHANGED <<dirVars, snapVars, dragVars, animVars, outVars>>

\* service_->event_queue_.push_back(std::move(evt)), the end of the
\* lock_guard's scope and the handler's return
HandlerPush(t) ==
  /\ handlers[t].pc = "locked"
  /\ event_queue_' = Append(event_queue_, handlers[t].evt)
  /\ enqueued' = Append(enqueued, handlers[t].evt)
  /\ queue_mutex_' = EmptyId
  /\ handlers' = [handlers EXCEPT ![t] = HandlerIdle]
  /\ UNCHANGED <<monitoring_, poll, clear_timer_id_, last_, processed>>
  /\ UNCHANGED <<dirVars, snapVars, dragVars, animVars, outVars>>

\* PollTimerProc -> ProcessPendingEvents, its lock_guard
PollLock ==
  /\ monitoring_
  /\ poll.pc = "idle"
  /\ queue_mutex_ = EmptyId
  /\ queue_mutex_' = "ui"
  /\ poll' = [poll EXCEPT !.pc = "locked"]
  /\ UNCHANGED <<monitoring_, event_queue_, handlers, clear_timer_id_, last_,
                 enqueued, processed>>
  /\ UNCHANGED <<dirVars, snapVars, dragVars, animVars, outVars>>

\* ProcessPendingEvents that copies the queue and leaves it as it is
PollSwapKeepsQueue ==
  /\ poll.pc = "locked"
  /\ poll' = [pc |-> IF event_queue_ = <<>> THEN "idle" ELSE "loop",
              events |-> event_queue_]
  /\ queue_mutex_' = EmptyId
  /\ UNCHANGED <<monitoring_, event_queue_, handlers, clear_timer_id_, last_,
                 enqueued, processed>>
  /\ UNCHANGED <<dirVars, snapVars, dragVars, animVars, outVars>>

\* events.swap(event_queue_) and the end of the lock_guard's scope; with
\* nothing swapped in the loop is over at once
PollSwap ==
  /\ poll.pc = "locked"
  /\ poll' = [pc |-> IF event_queue_ = <<>> THEN "idle" ELSE "loop",
              events |-> event_queue_]
  /\ event_queue_' = <<>>
  /\ queue_mutex_' = EmptyId
  /\ UNCHANGED <<monitoring_, handlers, clear_timer_id_, last_, enqueued,
                 processed>>
  /\ UNCHANGED <<dirVars, snapVars, dragVars, animVars, outVars>>

\* What one pass of the loop does with evt
Outcome(evt) ==
  IF evt.is_focus_change \/ evt.text = "" THEN "ScheduleClear"
  ELSE IF evt.text = last_.text /\ evt.has_bounds /\ evt.box = last_.box
  THEN "skipped"
  ELSE "selectionChanged"

\* One pass of `for (auto& evt : events)`: ScheduleClear, or CancelClear
\* followed by the dedup test and EmitSelectionChanged
PollStep ==
  /\ poll.pc = "loop"
  /\ LET evt == Head(poll.events)
         did == Outcome(evt)
     IN /\ clear_timer_id_' = IF did = "ScheduleClear" THEN 1 ELSE 0
        /\ last_' = IF did = "selectionChanged"
                    THEN [text |-> evt.text, box |-> evt.box]
                    ELSE last_
        /\ processed' = Append(processed, [evt |-> evt, did |-> did])
        /\ poll' = [pc |-> IF Len(poll.events) = 1 THEN "idle" ELSE "loop",
                    events |-> Tail(poll.events)]
  /\ UNCHANGED <<monitoring_, event_queue_, queue_mutex_, handlers, enqueued>>
  /\ UNCHANGED <<dirVars, snapVars, dragVars, animVars, outVars>>

\* ClearTimerProc, 200 ms after the last ScheduleClear: EmitSelectionCleared
ClearTimerProc ==
  /\ poll.pc = "idle"
  /\ clear_timer_id_ # 0
  /\ clear_timer_id_' = 0
  /\ last_' = NoLast
  /\ UNCHANGED <<monitoring_, event_queue_, queue_mutex_, handlers, poll,
                 enqueued, processed>>
  /\ UNCHANGED <<dirVars, snapVars, dragVars, animVars, outVars>>

NextSelection ==
  \/ \E uia_ok \in BOOLEAN : StartMonitoring(uia_ok)
  \/ \E t \in Threads, read \in SelectionReads :
       HandleAutomationEvent(t, read)
  \/ \E t \in Threads : HandleFocusChangedEvent(t)
  \/ \E t \in Threads : HandlerLock(t)
  \/ \E t \in Threads : HandlerPush(t)
  \/ PollLock
  \/ PollSwap
  \/ PollStep
  \/ ClearTimerProc

SpecSelection == InitFresh /\ [][NextSelection]_vars

----------------------------------------------------------------------------
(* C40 *)

\* The events of a sequence of loop passes
RECURSIVE EventsOf(_)
EventsOf(log) ==
  IF log = <<>> THEN <<>> ELSE <<Head(log).evt>> \o EventsOf(Tail(log))

============================================================================
